---- MODULE Spec2Model ----
(***************************************************************************)
(* A model of the configuration-security layer of the importer:            *)
(*   - the cipher engine of src/src/crypto.js (encrypt, decrypt,           *)
(*     isEncrypted),                                                       *)
(*   - the tree codec (decryptObject, encryptSensitiveFields),             *)
(*   - the configuration resolver loadConfig and the startup code          *)
(*     (both in src/src/importer/scrapper.js).                             *)
(*                                                                         *)
(* Strings are JavaScript strings: finite sequences of UTF-16 code units.  *)
(* Buffers are sequences of bytes (0..255).                                *)
(*                                                                         *)
(* node:crypto is modelled as an ideal cipher: PBKDF2 is an injective      *)
(* term over (password bytes, salt); AES-GCM is a counter-mode stream      *)
(* (ciphertext = plaintext XOR keystream(key, iv)) with a tag that is a    *)
(* digest of (key, iv, ciphertext); crypto.randomBytes is a stream that    *)
(* never repeats a block.                                                  *)
(***************************************************************************)
EXTENDS Integers, Sequences, FiniteSets, TLC

\* ------------------------------------------------------------------------
\* Program constants of crypto.js
\* ------------------------------------------------------------------------
KEY_LENGTH == 32
IV_LENGTH == 12
SALT_LENGTH == 32
AUTH_TAG_LENGTH == 16
PBKDF2_ITERATIONS == 100000

\* 'encrypted:v1:' as UTF-16 code units
ENCRYPTED_PREFIX == <<101, 110, 99, 114, 121, 112, 116, 101, 100, 58, 118, 49, 58>>

\* ------------------------------------------------------------------------
\* Sequence helpers
\* ------------------------------------------------------------------------
Min(a, b) == IF a < b THEN a ELSE b

\* JavaScript slice(from) / subarray(from, to) with 0-based, clamped bounds
Slice(s, from, to) ==
  LET f == Min(from, Len(s))
      t == Min(to, Len(s))
  IN  IF t <= f THEN <<>> ELSE SubSeq(s, f + 1, t)

startsWith(s, prefix) ==
  /\ Len(s) >= Len(prefix)
  /\ SubSeq(s, 1, Len(prefix)) = prefix

Bit(a, k) == (a \div (2 ^ k)) % 2

Xor(a, b) ==
    ((Bit(a, 0) + Bit(b, 0)) % 2)
  + ((Bit(a, 1) + Bit(b, 1)) % 2) * 2
  + ((Bit(a, 2) + Bit(b, 2)) % 2) * 4
  + ((Bit(a, 3) + Bit(b, 3)) % 2) * 8
  + ((Bit(a, 4) + Bit(b, 4)) % 2) * 16
  + ((Bit(a, 5) + Bit(b, 5)) % 2) * 32
  + ((Bit(a, 6) + Bit(b, 6)) % 2) * 64
  + ((Bit(a, 7) + Bit(b, 7)) % 2) * 128

\* ------------------------------------------------------------------------
\* UTF-8 (Buffer.from(str, 'utf8') / buf.toString('utf8'))
\* ------------------------------------------------------------------------
IsHighSurrogate(c) == c >= 55296 /\ c <= 56319
IsLowSurrogate(c) == c >= 56320 /\ c <= 57343
REPLACEMENT == 65533

Utf8OfCodePoint(cp) ==
  IF cp < 128 THEN <<cp>>
  ELSE IF cp < 2048 THEN <<192 + (cp \div 64), 128 + (cp % 64)>>
  ELSE IF cp < 65536 THEN
    <<224 + (cp \div 4096), 128 + ((cp \div 64) % 64), 128 + (cp % 64)>>
  ELSE
    <<240 + (cp \div 262144), 128 + ((cp \div 4096) % 64),
      128 + ((cp \div 64) % 64), 128 + (cp % 64)>>

\* the bytes written for the code unit at position i: a high surrogate
\* followed by a low one is written with it as one code point, and the low
\* one then writes nothing; an unpaired surrogate is written as U+FFFD
Utf8OfCodeUnit(s, i) ==
  IF IsHighSurrogate(s[i]) /\ i < Len(s) /\ IsLowSurrogate(s[i + 1]) THEN
    Utf8OfCodePoint(65536 + (s[i] - 55296) * 1024 + (s[i + 1] - 56320))
  ELSE IF IsLowSurrogate(s[i]) /\ i > 1 /\ IsHighSurrogate(s[i - 1]) THEN <<>>
  ELSE IF IsHighSurrogate(s[i]) \/ IsLowSurrogate(s[i]) THEN Utf8OfCodePoint(REPLACEMENT)
  ELSE Utf8OfCodePoint(s[i])

\* the bytes written for the code units a..b
RECURSIVE Utf8EncodeFrom(_, _, _)
Utf8EncodeFrom(s, a, b) ==
  IF a > b THEN <<>>
  ELSE IF a = b THEN Utf8OfCodeUnit(s, a)
  ELSE Utf8EncodeFrom(s, a, (a + b) \div 2) \o Utf8EncodeFrom(s, (a + b) \div 2 + 1, b)

Utf8Encode(s) == Utf8EncodeFrom(s, 1, Len(s))

IsCont(b, i) == i <= Len(b) /\ b[i] >= 128 /\ b[i] <= 191

CodeUnitsOf(cp) ==
  IF cp < 65536 THEN <<cp>>
  ELSE <<55296 + ((cp - 65536) \div 1024), 56320 + ((cp - 65536) % 1024)>>

RECURSIVE Utf8DecodeFrom(_, _)
Utf8DecodeFrom(b, i) ==
  IF i > Len(b) THEN <<>>
  ELSE LET c == b[i] IN
    IF c < 128 THEN <<c>> \o Utf8DecodeFrom(b, i + 1)
    ELSE IF c >= 194 /\ c <= 223 /\ IsCont(b, i + 1) THEN
      <<(c - 192) * 64 + (b[i + 1] - 128)>> \o Utf8DecodeFrom(b, i + 2)
    ELSE IF c >= 224 /\ c <= 239 /\ IsCont(b, i + 1) /\ IsCont(b, i + 2)
            /\ LET cp == (c - 224) * 4096 + (b[i + 1] - 128) * 64 + (b[i + 2] - 128)
               IN  cp >= 2048 /\ ~IsHighSurrogate(cp) /\ ~IsLowSurrogate(cp) THEN
      <<(c - 224) * 4096 + (b[i + 1] - 128) * 64 + (b[i + 2] - 128)>>
        \o Utf8DecodeFrom(b, i + 3)
    ELSE IF c >= 240 /\ c <= 244 /\ IsCont(b, i + 1) /\ IsCont(b, i + 2) /\ IsCont(b, i + 3)
            /\ LET cp == (c - 240) * 262144 + (b[i + 1] - 128) * 4096
                         + (b[i + 2] - 128) * 64 + (b[i + 3] - 128)
               IN  cp >= 65536 /\ cp <= 1114111 THEN
      CodeUnitsOf((c - 240) * 262144 + (b[i + 1] - 128) * 4096
                  + (b[i + 2] - 128) * 64 + (b[i + 3] - 128))
        \o Utf8DecodeFrom(b, i + 4)
    ELSE <<REPLACEMENT>> \o Utf8DecodeFrom(b, i + 1)

\* buf.toString('latin1') in place of 'utf8': one code unit per byte
Utf8Decode_latin1(b) == b

Utf8Decode(b) == Utf8DecodeFrom(b, 1)

\* ------------------------------------------------------------------------
\* base64 (buf.toString('base64') / Buffer.from(str, 'base64'))
\* ------------------------------------------------------------------------
B64Char(v) ==
  IF v < 26 THEN 65 + v
  ELSE IF v < 52 THEN 97 + (v - 26)
  ELSE IF v < 62 THEN 48 + (v - 52)
  ELSE IF v = 62 THEN 43
  ELSE 47

B64_PAD == 61

\* the sextet a character stands for, -1 when it is no base64 character
B64Value(c) ==
  IF c >= 65 /\ c <= 90 THEN c - 65
  ELSE IF c >= 97 /\ c <= 122 THEN c - 97 + 26
  ELSE IF c >= 48 /\ c <= 57 THEN c - 48 + 52
  ELSE IF c = 43 \/ c = 45 THEN 62
  ELSE IF c = 47 \/ c = 95 THEN 63
  ELSE -1

Base64Encode(b) ==
  LET n == Len(b)
      groups == (n + 2) \div 3
      byteAt(i) == IF i <= n THEN b[i] ELSE 0
      charAt(k) ==
        LET g == (k - 1) \div 4
            j == (k - 1) % 4
            b0 == byteAt(3 * g + 1)
            b1 == byteAt(3 * g + 2)
            b2 == byteAt(3 * g + 3)
        IN  IF j = 0 THEN B64Char(b0 \div 4)
            ELSE IF j = 1 THEN B64Char((b0 % 4) * 16 + (b1 \div 16))
            ELSE IF j = 2 THEN
              IF 3 * g + 2 > n THEN B64_PAD
              ELSE B64Char((b1 % 16) * 4 + (b2 \div 64))
            ELSE
              IF 3 * g + 3 > n THEN B64_PAD
              ELSE B64Char(b2 % 64)
  IN  [k \in 1..(4 * groups) |-> charAt(k)]

\* the sextets of s[a..b], characters outside the alphabet skipped
RECURSIVE B64Sextets(_, _, _)
B64Sextets(s, a, b) ==
  IF a > b THEN <<>>
  ELSE IF a = b THEN (IF B64Value(s[a]) < 0 THEN <<>> ELSE <<B64Value(s[a])>>)
  ELSE LET mid == (a + b) \div 2
       IN  B64Sextets(s, a, mid) \o B64Sextets(s, mid + 1, b)

\* the text up to its first '=' is what the decoder reads
B64End(s) ==
  LET pads == {i \in 1..Len(s) : s[i] = B64_PAD}
  IN  IF pads = {} THEN Len(s)
      ELSE (CHOOSE i \in pads : \A j \in pads : i <= j) - 1

Base64Decode(s) ==
  LET x == B64Sextets(s, 1, B64End(s))
      m == Len(x)
      n == (m \div 4) * 3 + (IF m % 4 = 2 THEN 1 ELSE IF m % 4 = 3 THEN 2 ELSE 0)
      sx(i) == IF i <= m THEN x[i] ELSE 0
      byteAt(k) ==
        LET g == (k - 1) \div 3
            j == (k - 1) % 3
        IN  IF j = 0 THEN sx(4 * g + 1) * 4 + (sx(4 * g + 2) \div 16)
            ELSE IF j = 1 THEN (sx(4 * g + 2) % 16) * 16 + (sx(4 * g + 3) \div 4)
            ELSE (sx(4 * g + 3) % 4) * 64 + sx(4 * g + 4)
  IN  [k \in 1..n |-> byteAt(k)]

\* ------------------------------------------------------------------------
\* Results of the async functions: a fulfilled value or a rejection
\* ------------------------------------------------------------------------
Ok(v) == [ok |-> TRUE, val |-> v]
Err(m) == [ok |-> FALSE, err |-> m]

ERR_ENCRYPT_REQUIRED == "Plaintext and master password are required"
ERR_DECRYPT_REQUIRED == "Encrypted text and master password are required"
ERR_NOT_ENCRYPTED == "Text is not in encrypted format"
ERR_DECRYPTION_FAILED == "Decryption failed: Invalid master password or corrupted data"
\* messages of node:crypto
NODE_ERR_AUTH == "Unsupported state or unable to authenticate data"
NODE_ERR_IV == "Invalid initialization vector"
NODE_ERR_TAG_LENGTH == "Invalid authentication tag length"

\* ------------------------------------------------------------------------
\* node:crypto, as an ideal cipher
\* ------------------------------------------------------------------------
\* crypto.randomBytes(n): block k of the generator's output stream; two
\* blocks of the stream differ
randomBytes(n, k) == [i \in 1..n |-> (k + 13 * i) % 256]

\* r^n mod p
RECURSIVE PowMod(_, _, _)
PowMod(r, n, p) ==
  IF n = 0 THEN 1
  ELSE LET h == PowMod(r, n \div 2, p)
       IN  IF n % 2 = 0 THEN (h * h) % p ELSE (((h * h) % p) * r) % p

\* the polynomial sum of (m[i] + 1) * r^(b - i) over i in a..b, mod p
RECURSIVE Poly(_, _, _, _, _)
Poly(m, a, b, r, p) ==
  IF a > b THEN 0
  ELSE IF a = b THEN (m[a] + 1) % p
  ELSE LET mid == (a + b) \div 2
       IN  (Poly(m, a, mid, r, p) * PowMod(r, b - mid, p) + Poly(m, mid + 1, b, r, p)) % p

\* a digest of a byte sequence in two words (stands for SHA-256 / GHASH)
Digest1(m) == (Poly(m, 1, Len(m), 131, 46337) + Len(m)) % 46337
Digest2(m) == (Poly(m, 1, Len(m), 137, 46327) + Len(m)) % 46327

\* PBKDF2-SHA256: a term over the password's UTF-8 bytes and the salt;
\* equal keys have equal password bytes and equal salts
deriveKey(password, salt) ==
  [kdf |-> "pbkdf2-sha256", iterations |-> PBKDF2_ITERATIONS, keylen |-> KEY_LENGTH,
   password |-> Utf8Encode(password), salt |-> salt]

KeyBytes(key) == <<Len(key.password)>> \o key.password \o key.salt

\* AES-256 in counter mode: byte i of the keystream of (key, iv)
Keystream(key, iv, n) ==
  LET h == Digest1(KeyBytes(key) \o iv)
  IN  [i \in 1..n |-> (((h + i) * 193 + i * i) % 46337) % 256]

GcmCrypt(key, iv, data) ==
  LET ks == Keystream(key, iv, Len(data))
  IN  [i \in 1..Len(data) |-> Xor(data[i], ks[i])]

\* the GCM authentication tag of a ciphertext under (key, iv)
GcmTag(key, iv, ciphertext) ==
  LET m == KeyBytes(key) \o <<Len(iv)>> \o iv \o ciphertext
      h1 == Digest1(m)
      h2 == Digest2(m)
  IN  [k \in 1..AUTH_TAG_LENGTH |->
         IF k = 1 THEN h1 % 256
         ELSE IF k = 2 THEN h1 \div 256
         ELSE IF k = 3 THEN h2 % 256
         ELSE IF k = 4 THEN h2 \div 256
         ELSE ((h1 * k + h2) % 46337) % 256]

\* tag lengths setAuthTag accepts in GCM mode
GCM_TAG_LENGTHS == {4, 8, 12, 13, 14, 15, 16}

\* decipher.update alone, decipher.final never called: the tag is not checked
GcmDecrypt_noFinal(key, iv, authTag, ciphertext) == Ok(GcmCrypt(key, iv, ciphertext))

\* decipher.update + decipher.final with the tag set: the plaintext bytes,
\* or node's authentication error
GcmDecrypt(key, iv, authTag, ciphertext) ==
  IF SubSeq(GcmTag(key, iv, ciphertext), 1, Len(authTag)) = authTag
  THEN Ok(GcmCrypt(key, iv, ciphertext))
  ELSE Err(NODE_ERR_AUTH)

\* the test written for the message of a block cipher ('bad decrypt')
IsAuthMessage_badDecrypt(msg) == msg = "bad decrypt"

\* error.message.includes('Unsupported state') || error.message.includes('auth')
IsAuthMessage(msg) == msg \in {NODE_ERR_AUTH, NODE_ERR_TAG_LENGTH}

\* ------------------------------------------------------------------------
\* crypto.js
\* ------------------------------------------------------------------------
\* a test of the first 10 characters, 'encrypted:', only
isEncrypted_anyVersion(text) == startsWith(text, SubSeq(ENCRYPTED_PREFIX, 1, 10))

isEncrypted(text) == startsWith(text, ENCRYPTED_PREFIX)

\* salt and iv drawn once when the module loads, not per call
encrypt_staticSalt(plaintext, masterPassword, rnd) ==
  IF plaintext = <<>> \/ masterPassword = <<>> THEN Err(ERR_ENCRYPT_REQUIRED)
  ELSE
    LET salt == randomBytes(SALT_LENGTH, 0)
        iv == randomBytes(IV_LENGTH, 1)
        key == deriveKey(masterPassword, salt)
        encrypted == GcmCrypt(key, iv, Utf8Encode(plaintext))
        authTag == GcmTag(key, iv, encrypted)
        combined == salt \o iv \o authTag \o encrypted
    IN  Ok(ENCRYPTED_PREFIX \o Base64Encode(combined))

\* encrypt without the test of lines 47-49
encrypt_noCheck(plaintext, masterPassword, rnd) ==
  LET salt == randomBytes(SALT_LENGTH, rnd)
      iv == randomBytes(IV_LENGTH, rnd + 1)
      key == deriveKey(masterPassword, salt)
      encrypted == GcmCrypt(key, iv, Utf8Encode(plaintext))
      authTag == GcmTag(key, iv, encrypted)
      combined == salt \o iv \o authTag \o encrypted
  IN  Ok(ENCRYPTED_PREFIX \o Base64Encode(combined))

\* encrypt(plaintext, masterPassword); rnd is the position of the random
\* stream at the call, which draws two blocks
encrypt(plaintext, masterPassword, rnd) ==
  IF plaintext = <<>> \/ masterPassword = <<>> THEN Err(ERR_ENCRYPT_REQUIRED)
  ELSE
    LET salt == randomBytes(SALT_LENGTH, rnd)
        iv == randomBytes(IV_LENGTH, rnd + 1)
        key == deriveKey(masterPassword, salt)
        encrypted == GcmCrypt(key, iv, Utf8Encode(plaintext))
        authTag == GcmTag(key, iv, encrypted)
        combined == salt \o iv \o authTag \o encrypted
    IN  Ok(ENCRYPTED_PREFIX \o Base64Encode(combined))

decrypt(encryptedText, masterPassword) ==
  IF encryptedText = <<>> \/ masterPassword = <<>> THEN Err(ERR_DECRYPT_REQUIRED)
  ELSE IF ~isEncrypted(encryptedText) THEN Err(ERR_NOT_ENCRYPTED)
  ELSE
    LET base64Data == Slice(encryptedText, Len(ENCRYPTED_PREFIX), Len(encryptedText))
        combined == Base64Decode(base64Data)
        salt == Slice(combined, 0, SALT_LENGTH)
        iv == Slice(combined, SALT_LENGTH, SALT_LENGTH + IV_LENGTH)
        authTag == Slice(combined, SALT_LENGTH + IV_LENGTH,
                         SALT_LENGTH + IV_LENGTH + AUTH_TAG_LENGTH)
        ciphertext == Slice(combined, SALT_LENGTH + IV_LENGTH + AUTH_TAG_LENGTH,
                            Len(combined))
        key == deriveKey(masterPassword, salt)
    IN  IF iv = <<>> THEN Err(NODE_ERR_IV)
        ELSE IF Len(authTag) \notin GCM_TAG_LENGTHS THEN Err(NODE_ERR_TAG_LENGTH)
        ELSE
          LET r == GcmDecrypt(key, iv, authTag, ciphertext)
          IN  IF r.ok THEN Ok(Utf8Decode(r.val))
              ELSE IF IsAuthMessage(r.err) THEN Err(ERR_DECRYPTION_FAILED)
              ELSE r

\* ------------------------------------------------------------------------
\* Configuration documents: trees of scalars, arrays and objects
\* ------------------------------------------------------------------------
Str(s) == [t |-> "string", s |-> s]
Num(n) == [t |-> "number", n |-> n]
Bool(b) == [t |-> "boolean", b |-> b]
Null == [t |-> "null"]
Undefined == [t |-> "undefined"]
\* the decimal text of a natural number (template literal `${index}`)
RECURSIVE ToDecimal(_)
ToDecimal(n) == IF n < 10 THEN <<48 + n>> ELSE ToDecimal(n \div 10) \o <<48 + (n % 10)>>
\* an array is its entries <<index, value>>, the index in decimal as a
\* property name; an object is its entries <<key, value>> in
\* Object.entries order
Arr(items) == [t |-> "array", v |-> [i \in 1..Len(items) |-> <<ToDecimal(i - 1), items[i]>>]]
Obj(entries) == [t |-> "object", v |-> entries]

\* keys and texts, as code units
K_credentials == <<99, 114, 101, 100, 101, 110, 116, 105, 97, 108, 115>>
K_username == <<117, 115, 101, 114, 110, 97, 109, 101>>
K_password == <<112, 97, 115, 115, 119, 111, 114, 100>>
K_name == <<110, 97, 109, 101>>
K_tokenApi == <<116, 111, 107, 101, 110, 65, 112, 105>>
K_id == <<105, 100>>
K_userCode == <<117, 115, 101, 114, 67, 111, 100, 101>>
K_card6Digits == <<99, 97, 114, 100, 54, 68, 105, 103, 105, 116, 115>>
K_type == <<116, 121, 112, 101>>
K_banks == <<98, 97, 110, 107, 115>>
K_creditCards == <<99, 114, 101, 100, 105, 116, 67, 97, 114, 100, 115>>
K_firefly == <<102, 105, 114, 101, 102, 108, 121>>
K_baseUrl == <<98, 97, 115, 101, 85, 114, 108>>

\* the i-th value of an object or array, the keys of an object
KeyAt(obj, i) == obj.v[i][1]
ValueAt(obj, i) == obj.v[i][2]
HasKey(obj, key) == obj.t = "object" /\ \E i \in 1..Len(obj.v) : obj.v[i][1] = key
\* obj[key], undefined when absent
Prop(obj, key) ==
  IF HasKey(obj, key)
  THEN obj.v[CHOOSE i \in 1..Len(obj.v) : obj.v[i][1] = key][2]
  ELSE Undefined

\* `${path}[${index}]`
PathIndex(path, index) == path \o <<91>> \o ToDecimal(index) \o <<93>>
\* path ? `${path}.${key}` : key
PathKey(path, key) == IF path = <<>> THEN key ELSE path \o <<46>> \o key

Contains(s, sub) ==
  \E i \in 1..(Len(s) - Len(sub) + 1) : SubSeq(s, i, i + Len(sub) - 1) = sub
endsWith(s, suffix) ==
  /\ Len(s) >= Len(suffix)
  /\ SubSeq(s, Len(s) - Len(suffix) + 1, Len(s)) = suffix

\* /\.credentials\./, /\.credentials$/, /\.password$/, /\.tokenApi$/,
\* /\.token$/, /\.secret$/, /\.apiKey$/
isSensitive(path) ==
  \/ Contains(path, <<46, 99, 114, 101, 100, 101, 110, 116, 105, 97, 108, 115, 46>>)
  \/ endsWith(path, <<46, 99, 114, 101, 100, 101, 110, 116, 105, 97, 108, 115>>)
  \/ endsWith(path, <<46, 112, 97, 115, 115, 119, 111, 114, 100>>)
  \/ endsWith(path, <<46, 116, 111, 107, 101, 110, 65, 112, 105>>)
  \/ endsWith(path, <<46, 116, 111, 107, 101, 110>>)
  \/ endsWith(path, <<46, 115, 101, 99, 114, 101, 116>>)
  \/ endsWith(path, <<46, 97, 112, 105, 75, 101, 121>>)

\* the code units String.prototype.trim removes
WHITESPACE ==
  {9, 10, 11, 12, 13, 32, 160, 5760, 8232, 8233, 8239, 8287, 12288, 65279}
    \cup (8192..8202)
\* obj.trim() === ''
IsBlank(s) == \A i \in 1..Len(s) : s[i] \in WHITESPACE

\* '__proto__'
K_proto == <<95, 95, 112, 114, 111, 116, 111, 95, 95>>
\* result[key] = value on the object literal `result`, as the own entries of
\* result: the assignment to '__proto__' runs the setter inherited from
\* Object.prototype (it changes the prototype or does nothing) and adds no
\* own property; Object.entries and yaml.dump read own properties only.
Assign(key, value, entries) ==
  IF key = K_proto THEN entries ELSE << <<key, value>> >> \o entries

\* the path of child i of an array (`${path}[${index}]`) or of an object
\* (path ? `${path}.${key}` : key)
ChildPath(obj, i, path) ==
  IF obj.t = "array" THEN PathIndex(path, i - 1) ELSE PathKey(path, KeyAt(obj, i))

\* The result of a traversal that encrypts: the new node and the position
\* of the random stream after it, or a rejection.
\* encryptSensitiveFields(obj, masterPassword, path); every encrypt call of
\* the traversal draws its salt and nonce before the first await, so the
\* stream is drawn in document order.
RECURSIVE encryptSensitiveFields(_, _, _, _)
RECURSIVE EncryptChildren(_, _, _, _, _)

\* a child's result followed by the results of the children after it
EncryptJoin(obj, i, head, tail) ==
  IF ~head.ok THEN [ok |-> FALSE, err |-> head.err, rng |-> tail.rng]
  ELSE IF ~tail.ok THEN tail
  ELSE [ok |-> TRUE,
        val |-> Assign(KeyAt(obj, i), head.val, tail.val),
        rng |-> tail.rng]
\* the children after a child, the random stream going on from its result
EncryptRest(obj, i, masterPassword, path, head) ==
  EncryptJoin(obj, i, head, EncryptChildren(obj, i + 1, masterPassword, path, head.rng))

\* the children i.. of an array or object, each under its own path
EncryptChildren(obj, i, masterPassword, path, rnd) ==
  IF i > Len(obj.v) THEN [ok |-> TRUE, val |-> <<>>, rng |-> rnd]
  ELSE EncryptRest(obj, i, masterPassword, path,
                   encryptSensitiveFields(ValueAt(obj, i), masterPassword,
                                          IF obj.t = "array" THEN PathIndex(path, i - 1)
                                          ELSE PathKey(path, KeyAt(obj, i)),
                                          rnd))

\* the result of a traversal from the result of encrypt on a leaf
EncryptedLeaf(r, rnd) ==
  IF r.ok THEN [ok |-> TRUE, val |-> Str(r.val), rng |-> rnd + 2]
  ELSE [ok |-> FALSE, err |-> r.err, rng |-> rnd]
\* the array or object rebuilt from the results of its children
EncryptedNode(obj, r) ==
  IF r.ok THEN [ok |-> TRUE, val |-> [t |-> obj.t, v |-> r.val], rng |-> r.rng] ELSE r

\* encryptSensitiveFields without the isEncrypted test of lines 189-192
encryptSensitiveFields_noSkip(obj, masterPassword, path, rnd) ==
  IF obj.t \in {"null", "undefined"} THEN [ok |-> TRUE, val |-> obj, rng |-> rnd]
  ELSE IF obj.t = "string" THEN
    IF isSensitive(path) /\ ~IsBlank(obj.s)
    THEN EncryptedLeaf(encrypt(obj.s, masterPassword, rnd), rnd)
    ELSE [ok |-> TRUE, val |-> obj, rng |-> rnd]
  ELSE IF obj.t \in {"array", "object"}
       THEN EncryptedNode(obj, EncryptChildren(obj, 1, masterPassword, path, rnd))
  ELSE [ok |-> TRUE, val |-> obj, rng |-> rnd]

encryptSensitiveFields(obj, masterPassword, path, rnd) ==
  IF obj.t \in {"null", "undefined"} THEN [ok |-> TRUE, val |-> obj, rng |-> rnd]
  ELSE IF obj.t = "string" THEN
    IF isEncrypted(obj.s) THEN [ok |-> TRUE, val |-> obj, rng |-> rnd]
    ELSE IF isSensitive(path) /\ ~IsBlank(obj.s)
         THEN EncryptedLeaf(encrypt(obj.s, masterPassword, rnd), rnd)
    ELSE [ok |-> TRUE, val |-> obj, rng |-> rnd]
  ELSE IF obj.t \in {"array", "object"}
       THEN EncryptedNode(obj, EncryptChildren(obj, 1, masterPassword, path, rnd))
  ELSE [ok |-> TRUE, val |-> obj, rng |-> rnd]

\* decryptObject(obj, masterPassword): the decrypted tree, or the rejections
\* Promise.all can settle with (the first child promise to reject, in time)
RECURSIVE decryptObject(_, _)
RECURSIVE DecryptChildren(_, _, _)

\* a child's result joined with the results of the children after it
DecryptJoin(obj, i, head, tail) ==
  IF ~head.ok /\ ~tail.ok THEN [ok |-> FALSE, errs |-> head.errs \cup tail.errs]
  ELSE IF ~head.ok THEN head
  ELSE IF ~tail.ok THEN tail
  ELSE [ok |-> TRUE,
        val |-> Assign(KeyAt(obj, i), head.val, tail.val)]

DecryptChildren(obj, i, masterPassword) ==
  IF i > Len(obj.v) THEN [ok |-> TRUE, val |-> <<>>]
  ELSE DecryptJoin(obj, i, decryptObject(ValueAt(obj, i), masterPassword),
                   DecryptChildren(obj, i + 1, masterPassword))

\* the result of a traversal from the result of decrypt on a leaf
DecryptedLeaf(r) ==
  IF r.ok THEN [ok |-> TRUE, val |-> Str(r.val)] ELSE [ok |-> FALSE, errs |-> {r.err}]
\* the array or object rebuilt from the results of its children
DecryptedNode(obj, r) ==
  IF r.ok THEN [ok |-> TRUE, val |-> [t |-> obj.t, v |-> r.val]] ELSE r

decryptObject(obj, masterPassword) ==
  IF obj.t \in {"null", "undefined"} THEN [ok |-> TRUE, val |-> obj]
  ELSE IF obj.t = "string" THEN
    IF isEncrypted(obj.s) THEN DecryptedLeaf(decrypt(obj.s, masterPassword))
    ELSE [ok |-> TRUE, val |-> obj]
  ELSE IF obj.t \in {"array", "object"}
       THEN DecryptedNode(obj, DecryptChildren(obj, 1, masterPassword))
  ELSE [ok |-> TRUE, val |-> obj]


\* The children of one array or object as Promise.all sees them: the calls
\* are made in document order (each encrypt draws its random bytes before
\* its first await) and settle in any order.
\* the results of decryptObject on the children, by position
DecryptEach(obj, masterPassword) ==
  [i \in 1..Len(obj.v) |-> decryptObject(ValueAt(obj, i), masterPassword)]
\* the results of encryptSensitiveFields on the children i.., by position
RECURSIVE EncryptEach(_, _, _, _, _)
EncryptEachAfter(obj, i, masterPassword, path, head) ==
  <<head>> \o EncryptEach(obj, i + 1, masterPassword, path, head.rng)
EncryptEach(obj, i, masterPassword, path, rnd) ==
  IF i > Len(obj.v) THEN <<>>
  ELSE EncryptEachAfter(obj, i, masterPassword, path,
                        encryptSensitiveFields(ValueAt(obj, i), masterPassword,
                                               ChildPath(obj, i, path), rnd))
\* result[key] = value in a callback that runs when its child has settled:
\* the key is added after the keys assigned before it; '__proto__' runs the
\* inherited setter and adds no own property
AssignNext(entries, key, value) ==
  IF key = K_proto THEN entries ELSE Append(entries, <<key, value>>)
\* `result` after the callbacks of an object ran in the order `settled`
RECURSIVE AssignInOrder(_, _, _, _, _)
AssignInOrder(obj, results, settled, k, entries) ==
  IF k > Len(settled) THEN entries
  ELSE AssignInOrder(obj, results, settled, k + 1,
                     AssignNext(entries, KeyAt(obj, settled[k]), results[settled[k]].val))
\* what the call resolves with: Promise.all's array of the values by
\* position, or the object `result`
JoinResult(obj, results, settled) ==
  IF obj.t = "array"
  THEN [t |-> "array", v |-> [i \in 1..Len(obj.v) |-> <<KeyAt(obj, i), results[i].val>>]]
  ELSE [t |-> "object", v |-> AssignInOrder(obj, results, settled, 1, <<>>)]

\* listSensitiveFields(obj, path, fields) of the encryption tool: `fields`
\* after the call, the paths pushed in the order of the traversal
RECURSIVE listSensitiveFields(_, _, _)
RECURSIVE ListChildren(_, _, _, _)
\* forEach over the items of an array or the entries of an object, from i on
ListChildren(obj, i, path, fields) ==
  IF i > Len(obj.v) THEN fields
  ELSE ListChildren(obj, i + 1, path,
                    listSensitiveFields(ValueAt(obj, i), ChildPath(obj, i, path), fields))

listSensitiveFields(obj, path, fields) ==
  IF obj.t \in {"null", "undefined"} THEN fields
  ELSE IF obj.t = "string" THEN
    IF isSensitive(path) /\ ~IsBlank(obj.s) /\ ~isEncrypted(obj.s)
    THEN Append(fields, path)
    ELSE fields
  ELSE IF obj.t \in {"array", "object"} THEN ListChildren(obj, 1, path, fields)
  ELSE fields

\* hasEncryptedValues(obj) of the configuration loader
RECURSIVE hasEncryptedValues(_)
hasEncryptedValues(obj) ==
  IF obj.t \in {"null", "undefined"} THEN FALSE
  ELSE IF obj.t = "string" THEN isEncrypted(obj.s)
  ELSE IF obj.t \in {"array", "object"} THEN
    \E i \in 1..Len(obj.v) : hasEncryptedValues(ValueAt(obj, i))
  ELSE FALSE

\* the string leaves of a tree, each with its path
RECURSIVE StringLeaves(_, _)
StringLeaves(obj, path) ==
  IF obj.t = "string" THEN {<<path, obj.s>>}
  ELSE IF obj.t \in {"array", "object"} THEN
    UNION {StringLeaves(ValueAt(obj, i),
                        IF obj.t = "array" THEN PathIndex(path, i - 1)
                        ELSE PathKey(path, KeyAt(obj, i))) : i \in 1..Len(obj.v)}
  ELSE {}

\* ------------------------------------------------------------------------
\* The configuration provider (nconf) as load-config.js uses it
\* ------------------------------------------------------------------------
K_cron == <<99, 114, 111, 110>>
K_scraper == <<115, 99, 114, 97, 112, 101, 114>>
K_log == <<108, 111, 103>>
K_level == <<108, 101, 118, 101, 108>>
K_parallel == <<112, 97, 114, 97, 108, 108, 101, 108>>
K_timeout == <<116, 105, 109, 101, 111, 117, 116>>
K_startDate == <<115, 116, 97, 114, 116, 68, 97, 116, 101>>
S_literal == <<108, 105, 116, 101, 114, 97, 108>>

\* Number.NaN, the result of a parseInt that finds no digits
NaN == [t |-> "nan"]

\* JavaScript truthiness, as `||`, `!` and `if` see a value
Truthy(node) ==
  CASE node.t \in {"undefined", "null", "nan"} -> FALSE
    [] node.t = "string" -> node.s # <<>>
    [] node.t = "number" -> node.n # 0
    [] node.t = "boolean" -> node.b
    [] OTHER -> TRUE

\* a || b
OrElse(a, b) == IF Truthy(a) THEN a ELSE b

\* parseInt(text, 10): leading white space, a sign, then the decimal digits
IsDigit(c) == c >= 48 /\ c <= 57
RECURSIVE SkipBlank(_, _)
SkipBlank(s, i) == IF i <= Len(s) /\ s[i] \in WHITESPACE THEN SkipBlank(s, i + 1) ELSE i
RECURSIVE DigitRun(_, _, _)
DigitRun(s, i, acc) ==
  IF i <= Len(s) /\ IsDigit(s[i]) THEN DigitRun(s, i + 1, 10 * acc + (s[i] - 48)) ELSE acc
parseInt(s) ==
  LET b == SkipBlank(s, 1)
      signed == b <= Len(s) /\ s[b] \in {43, 45}
      d == IF signed THEN b + 1 ELSE b
  IN  IF d > Len(s) \/ ~IsDigit(s[d]) THEN NaN
      ELSE IF signed /\ s[b] = 45 THEN Num(0 - DigitRun(s, d, 0))
      ELSE Num(DigitRun(s, d, 0))

\* the positions of an own property: a key of an object, an index of an array
OwnIndex(node, key) ==
  IF node.t \in {"object", "array"} THEN {i \in 1..Len(node.v) : node.v[i][1] = key}
  ELSE {}
\* node[key], undefined when it is no own property
Member(node, key) ==
  IF OwnIndex(node, key) = {} THEN Undefined
  ELSE ValueAt(node, CHOOSE i \in OwnIndex(node, key) : TRUE)
\* node[key] = value, on an object or on an index of an array up to its length
SetMember(node, key, value) ==
  LET at == OwnIndex(node, key)
  IN  CASE at # {} ->
             [node EXCEPT !.v[CHOOSE i \in at : TRUE][2] = value]
        [] at = {} /\ (node.t = "object" \/ key = ToDecimal(Len(node.v))) ->
             [node EXCEPT !.v = @ \o << <<key, value>> >>]

\* Memory.prototype.get: walk the path through own properties
RECURSIVE MemoryGet(_, _)
MemoryGet(target, path) ==
  IF path = <<>> THEN target
  ELSE IF OwnIndex(target, Head(path)) # {}
       THEN MemoryGet(Member(target, Head(path)), Tail(path))
       ELSE Undefined

\* Memory.prototype.set: scope into the path, creating {} where the path
\* meets a falsy or non-object value, then assign
RECURSIVE MemorySet(_, _, _)
MemorySet(target, path, value) ==
  IF Len(path) = 1 THEN SetMember(target, path[1], value)
  ELSE
    LET child == Member(target, Head(path))
        scoped == IF Truthy(child) /\ child.t \in {"object", "array"} THEN child
                  ELSE Obj(<<>>)
    IN  SetMember(target, Head(path), MemorySet(scoped, Tail(path), value))

\* Memory.prototype.merge and common.merge: objects are merged key by key,
\* anything else (arrays included) replaces what is there
RECURSIVE MergeKey(_, _, _)
RECURSIVE MergeEntries(_, _, _)
MergeKey(target, key, value) ==
  LET cur == Member(target, key)
  IN  IF value.t # "object" THEN SetMember(target, key, value)
      ELSE IF cur.t = "object"
           THEN SetMember(target, key, MergeEntries(cur, value, 1))
      ELSE IF cur.t = "null" /\ value.v = <<>> THEN target
      ELSE IF cur.t = "null"
           THEN SetMember(target, key, MergeEntries(Obj(<<>>), value, 1))
      ELSE SetMember(target, key, value)
MergeEntries(target, obj, i) ==
  IF i > Len(obj.v) THEN target
  ELSE MergeEntries(MergeKey(target, KeyAt(obj, i), ValueAt(obj, i)), obj, i + 1)
RECURSIVE merge(_, _)
merge(objs, i) ==
  IF i > Len(objs) THEN Obj(<<>>) ELSE MergeEntries(merge(objs, i + 1), objs[i], 1)

\* A provider is its stores in the order they were added; a store is
\* [name, readOnly, store].
\* Provider.prototype.get: the first store that has the key answers, except
\* that objects are collected from every store and merged, earlier stores
\* winning.
RECURSIVE GetFrom(_, _, _, _)
GetFrom(stores, i, path, mergeObjs) ==
  IF i > Len(stores)
  THEN IF mergeObjs = <<>> THEN Undefined ELSE merge(mergeObjs, 1)
  ELSE
    LET response == MemoryGet(stores[i].store, path)
    IN  IF response.t = "undefined" THEN GetFrom(stores, i + 1, path, mergeObjs)
        ELSE IF response.t = "object"
             THEN GetFrom(stores, i + 1, path, mergeObjs \o <<response>>)
        ELSE IF mergeObjs = <<>> THEN response
        ELSE merge(mergeObjs, 1)
ProviderGet(stores, path) == GetFrom(stores, 1, path, <<>>)

\* Provider.prototype.set: the first store that is not read-only takes it
ProviderSet(stores, path, value) ==
  LET writable == {i \in 1..Len(stores) : ~stores[i].readOnly}
  IN  IF writable = {} THEN stores
      ELSE LET w == CHOOSE i \in writable : \A j \in writable : i <= j
           IN  [stores EXCEPT ![w].store = MemorySet(@, path, value)]

\* Provider.prototype.remove and add
ProviderRemove(stores, name) == SelectSeq(stores, LAMBDA s : s.name # name)
ProviderAdd(stores, name, readOnly, store) ==
  IF \E i \in 1..Len(stores) : stores[i].name = name
  THEN [i \in 1..Len(stores) |->
          IF stores[i].name = name
          THEN [name |-> name, readOnly |-> readOnly, store |-> store]
          ELSE stores[i]]
  ELSE stores \o <<[name |-> name, readOnly |-> readOnly, store |-> store]>>

\* a literal store keeps the options object it was given, `type` included
Literal(options) ==
  IF Truthy(Member(options, K_type)) THEN options
  ELSE SetMember(options, K_type, Str(S_literal))

\* the keys of Provider.prototype.required that get() answers undefined for
Missing(stores, keys) ==
  SelectSeq(keys, LAMBDA k : ProviderGet(stores, k).t = "undefined")

\* ------------------------------------------------------------------------
\* load-config.js: the steps of loadConfig as functions of the provider
\* ------------------------------------------------------------------------
\* isEncrypted(value) of a value of any type
isEncryptedValue(node) == node.t = "string" /\ isEncrypted(node.s)

\* envMap, in the order the store is filled
envMap ==
  << <<"FIREFLY_BASE_URL", <<K_firefly, K_baseUrl>> >>,
     <<"FIREFLY_TOKEN_API", <<K_firefly, K_tokenApi>> >>,
     <<"CRON", <<K_cron>> >>,
     <<"SCRAPER_PARALLEL", <<K_scraper, K_parallel>> >>,
     <<"SCRAPER_TIMEOUT", <<K_scraper, K_timeout>> >>,
     <<"SCRAPER_START_DATE", <<K_scraper, K_startDate>> >>,
     <<"LOG_LEVEL", <<K_log, K_level>> >> >>
ENV_TOP == {envMap[i][1] : i \in 1..Len(envMap)} \cup {"MASTER_PASSWORD", "CONFIG_FILE"}

\* the credential variables BANK_<i>_<FIELD> and BANK_<i>_CC_<j>_<FIELD>
BANK_FIELDS ==
  << <<"USERNAME", K_username>>, <<"PASSWORD", K_password>>,
     <<"ID", K_id>>, <<"USERCODE", K_userCode>> >>
CC_FIELDS ==
  << <<"USERNAME", K_username>>, <<"PASSWORD", K_password>>,
     <<"ID", K_id>>, <<"CARD6DIGITS", K_card6Digits>> >>

\* process.env[name]; the environment is [top, bank, cc], undefined when unset
Getenv(e, name) == e.top[name]
BankEnv(e, i, field) ==
  IF <<i, field>> \in DOMAIN e.bank THEN e.bank[<<i, field>>] ELSE Undefined
CcEnv(e, i, j, field) ==
  IF <<i, j, field>> \in DOMAIN e.cc THEN e.cc[<<i, j, field>>] ELSE Undefined

\* the env store: the variables of envMap that are set, under their keys
RECURSIVE LoadEnv(_, _, _)
LoadEnv(e, i, store) ==
  IF i > Len(envMap) THEN store
  ELSE LET value == Getenv(e, envMap[i][1])
       IN  LoadEnv(e, i + 1,
                   IF value.t = "undefined" THEN store
                   ELSE MemorySet(store, envMap[i][2], value))

\* envOverrides.firefly
OverrideFirefly(o, baseUrl, tokenApi, stores) ==
  IF Truthy(baseUrl) \/ Truthy(tokenApi)
  THEN SetMember(o, K_firefly,
                 Obj(<< <<K_baseUrl,
                          OrElse(baseUrl, ProviderGet(stores, <<K_firefly, K_baseUrl>>))>>,
                        <<K_tokenApi,
                          OrElse(tokenApi, ProviderGet(stores, <<K_firefly, K_tokenApi>>))>>
                     >>))
  ELSE o
\* envOverrides.cron
OverrideCron(o, cron) == IF Truthy(cron) THEN SetMember(o, K_cron, cron) ELSE o
\* envOverrides.log
OverrideLog(o, level) ==
  IF Truthy(level) THEN SetMember(o, K_log, Obj(<< <<K_level, level>> >>)) ELSE o
\* { ...base, timeout: parseInt(SCRAPER_TIMEOUT, 10), startDate: SCRAPER_START_DATE }
SpreadTimeout(base, timeout) ==
  IF Truthy(timeout) THEN SetMember(base, K_timeout, parseInt(timeout.s)) ELSE base
SpreadStartDate(base, startDate) ==
  IF Truthy(startDate) THEN SetMember(base, K_startDate, startDate) ELSE base
\* envOverrides.scraper
OverrideScraper(o, timeout, startDate, stores) ==
  IF Truthy(timeout) \/ Truthy(startDate)
  THEN SetMember(o, K_scraper,
                 SpreadStartDate(
                   SpreadTimeout(
                     OrElse(OrElse(Member(o, K_scraper), ProviderGet(stores, <<K_scraper>>)),
                            Obj(<<>>)),
                     timeout),
                   startDate))
  ELSE o

\* the envOverrides object of loadConfig
envOverrides(e, stores) ==
  OverrideScraper(
    OverrideLog(
      OverrideCron(
        OverrideFirefly(Obj(<<>>), Getenv(e, "FIREFLY_BASE_URL"),
                        Getenv(e, "FIREFLY_TOKEN_API"), stores),
        Getenv(e, "CRON")),
      Getenv(e, "LOG_LEVEL")),
    Getenv(e, "SCRAPER_TIMEOUT"), Getenv(e, "SCRAPER_START_DATE"), stores)

\* the list of config.required without 'firefly:tokenApi'
REQUIRED_KEYS_noTokenApi == << <<K_firefly>>, <<K_firefly, K_baseUrl>>, <<K_banks>> >>

REQUIRED_KEYS ==
  << <<K_firefly>>, <<K_firefly, K_baseUrl>>, <<K_firefly, K_tokenApi>>, <<K_banks>> >>

\* config.set(prefix:key, value) for each field whose variable is truthy
RECURSIVE SetTruthy(_, _, _, _, _)
SetTruthy(stores, prefix, fields, values, k) ==
  IF k > Len(fields) THEN stores
  ELSE SetTruthy(IF Truthy(values[k])
                 THEN ProviderSet(stores, prefix \o <<fields[k][2]>>, values[k])
                 ELSE stores,
                 prefix, fields, values, k + 1)

\* creditCards.forEach of applyCredentialEnvOverrides, from card ccIndex on
RECURSIVE OverrideCards(_, _, _, _, _)
OverrideCards(e, stores, bankIndex, creditCards, ccIndex) ==
  IF ccIndex >= Len(creditCards.v) THEN stores
  ELSE OverrideCards(
         e,
         SetTruthy(stores,
                   <<K_banks, ToDecimal(bankIndex), K_creditCards, ToDecimal(ccIndex),
                     K_credentials>>,
                   CC_FIELDS,
                   [k \in 1..Len(CC_FIELDS) |-> CcEnv(e, bankIndex, ccIndex, CC_FIELDS[k][1])],
                   1),
         bankIndex, creditCards, ccIndex + 1)

\* the bank credential overrides of one bank
OverrideBank_usernameOnly(e, stores, bankIndex) ==
  SetTruthy(stores, <<K_banks, ToDecimal(bankIndex), K_credentials>>,
            SubSeq(BANK_FIELDS, 1, 1),
            [k \in 1..1 |-> BankEnv(e, bankIndex, BANK_FIELDS[k][1])], 1)
OverrideBank(e, stores, bankIndex) ==
  SetTruthy(stores, <<K_banks, ToDecimal(bankIndex), K_credentials>>, BANK_FIELDS,
            [k \in 1..Len(BANK_FIELDS) |-> BankEnv(e, bankIndex, BANK_FIELDS[k][1])], 1)

\* banks.forEach of applyCredentialEnvOverrides, from bank bankIndex on;
\* `bank` is the element the iteration was started with
RECURSIVE OverrideBanks(_, _, _, _)
\* the credit cards of a bank, after its own overrides gave `stores`
OverrideBankCards(e, stores, banks, bankIndex, bank, creditCards) ==
  IF bank.t \in {"null", "undefined"} \/ creditCards.t # "array"
  THEN [ok |-> FALSE, stores |-> stores]
  ELSE OverrideBanks(e, OverrideCards(e, stores, bankIndex, creditCards, 0),
                     banks, bankIndex + 1)
OverrideBanks(e, stores, banks, bankIndex) ==
  IF bankIndex >= Len(banks.v) THEN [ok |-> TRUE, stores |-> stores]
  ELSE OverrideBankCards(e, OverrideBank(e, stores, bankIndex), banks, bankIndex,
                         ValueAt(banks, bankIndex + 1),
                         OrElse(Member(ValueAt(banks, bankIndex + 1), K_creditCards),
                                Arr(<<>>)))

\* banks.forEach over an array; anything else has no forEach
ForEachBank(e, stores, banks) ==
  IF banks.t # "array" THEN [ok |-> FALSE, stores |-> stores]
  ELSE OverrideBanks(e, stores, banks, 0)

\* applyCredentialEnvOverrides(): the provider after it, or a TypeError
applyCredentialEnvOverrides(e, stores) ==
  ForEachBank(e, stores, OrElse(ProviderGet(stores, <<K_banks>>), Arr(<<>>)))

\* needsDecryption of loadConfig
needsDecryption_banksOnly(stores) == hasEncryptedValues(ProviderGet(stores, <<K_banks>>))
needsDecryption(stores) ==
  \/ hasEncryptedValues(ProviderGet(stores, <<K_banks>>))
  \/ isEncryptedValue(ProviderGet(stores, <<K_firefly, K_tokenApi>>))

\* config.set(path, decrypted) once decryptObject resolved
SetDecrypted(stores, path, r) ==
  IF r.ok THEN [ok |-> TRUE, stores |-> ProviderSet(stores, path, r.val)]
  ELSE [ok |-> FALSE, errs |-> r.errs]

\* decryptBanksConfig(masterPassword): the provider after it, or the
\* rejections it can end with
DecryptBanks(stores, password, banks) ==
  IF ~Truthy(banks) THEN [ok |-> TRUE, stores |-> stores]
  ELSE SetDecrypted(stores, <<K_banks>>, decryptObject(banks, password))
decryptBanksConfig(stores, password) ==
  DecryptBanks(stores, password, ProviderGet(stores, <<K_banks>>))

\* decryptFireflyConfig(masterPassword)
DecryptTokenApi(stores, password, tokenApi) ==
  IF ~(Truthy(tokenApi) /\ isEncryptedValue(tokenApi))
  THEN [ok |-> TRUE, stores |-> stores]
  ELSE SetDecrypted(stores, <<K_firefly, K_tokenApi>>, decryptObject(tokenApi, password))
decryptFireflyConfig(stores, password) ==
  DecryptTokenApi(stores, password, ProviderGet(stores, <<K_firefly, K_tokenApi>>))

\* ------------------------------------------------------------------------
\* The encryption tool (cli-encrypt.js)
\* ------------------------------------------------------------------------
A_input == <<45, 45, 105, 110, 112, 117, 116>>
A_i == <<45, 105>>
A_output == <<45, 45, 111, 117, 116, 112, 117, 116>>
A_o == <<45, 111>>
A_decrypt == <<45, 45, 100, 101, 99, 114, 121, 112, 116>>
A_d == <<45, 100>>
A_encryptValue == <<45, 45, 101, 110, 99, 114, 121, 112, 116, 45, 118, 97, 108, 117, 101>>
A_e == <<45, 101>>
A_help == <<45, 45, 104, 101, 108, 112>>
A_h == <<45, 104>>
\* 'config.yaml' and 'config.encrypted.yaml'
S_configYaml == <<99, 111, 110, 102, 105, 103, 46, 121, 97, 109, 108>>
S_configEncryptedYaml == <<99, 111, 110, 102, 105, 103, 46, 101, 110, 99, 114, 121, 112, 116, 101, 100, 46, 121, 97, 109, 108>>

\* args[i + 1], undefined past the end of the array
ArgAt(args, i) == IF i <= Len(args) THEN Str(args[i]) ELSE Undefined

DefaultOptions ==
  [input |-> Str(S_configYaml), output |-> Str(S_configEncryptedYaml),
   decrypt |-> FALSE, encryptValue |-> FALSE, help |-> FALSE, unknown |-> Undefined]

\* the loop of parseArgs from args[i] on; `unknown` is the option that made
\* it call process.exit(1)
RECURSIVE ParseFrom(_, _, _)
ParseFrom(args, i, options) ==
  IF i > Len(args) THEN options
  ELSE IF args[i] \in {A_input, A_i}
    THEN ParseFrom(args, i + 2, [options EXCEPT !.input = ArgAt(args, i + 1)])
  ELSE IF args[i] \in {A_output, A_o}
    THEN ParseFrom(args, i + 2, [options EXCEPT !.output = ArgAt(args, i + 1)])
  ELSE IF args[i] \in {A_decrypt, A_d}
    THEN ParseFrom(args, i + 1, [options EXCEPT !.decrypt = TRUE])
  ELSE IF args[i] \in {A_encryptValue, A_e}
    THEN ParseFrom(args, i + 1, [options EXCEPT !.encryptValue = TRUE])
  ELSE IF args[i] \in {A_help, A_h}
    THEN ParseFrom(args, i + 1, [options EXCEPT !.help = TRUE])
  ELSE IF startsWith(args[i], <<45>>)
    THEN [options EXCEPT !.unknown = Str(args[i])]
  ELSE ParseFrom(args, i + 1, options)

parseArgs(args) == ParseFrom(args, 1, DefaultOptions)

\* one write to process.stdout (fd 1) or process.stderr (fd 2): the text of
\* the template with the values put into it
Log(fd, msg, args) == [fd |-> fd, msg |-> msg, args |-> args, err |-> ""]
\* a write of a template with ${error.message} in it
LogError(fd, msg, err) == [fd |-> fd, msg |-> msg, args |-> <<>>, err |-> err]
\* what the readline interface writes itself when it is a terminal interface
RL_ECHO == "readline: typed characters"
RL_REFRESH == "readline: prompt and line"

\* A line of input is the data chunks that arrive before the Enter key.
RECURSIVE Flatten(_, _)
Flatten(chunks, i) == IF i > Len(chunks) THEN <<>> ELSE chunks[i] \o Flatten(chunks, i + 1)

\* createInterface({input: process.stdin, output: process.stdout}) is a
\* terminal interface when the output is a TTY: it then writes every typed
\* character to the output itself
Echo(outTTY, text) == IF outTTY THEN <<Log(1, RL_ECHO, <<text>>)>> ELSE <<>>

\* rl.question(question, resolve) on a line of input
Question(question, chunks, outTTY) ==
  [exit |-> FALSE,
   answer |-> Flatten(chunks, 1),
   out |-> <<Log(1, question, <<>>)>> \o Echo(outTTY, Flatten(chunks, 1))]

\* onData of the hidden prompt on chunk i and the chunks after it, then the
\* Enter key
RECURSIVE OnData(_, _, _, _, _, _)
OnData(question, chunks, i, outTTY, password, out) ==
  IF i > Len(chunks)
    THEN [exit |-> FALSE, answer |-> password, out |-> Append(out, Log(1, "\n", <<>>))]
  ELSE IF chunks[i] = <<3>>
    THEN [exit |-> TRUE, answer |-> password, out |-> out]
  ELSE IF chunks[i] \in {<<127>>, <<8>>} THEN
    IF Len(password) > 0
    THEN OnData(question, chunks, i + 1, outTTY, SubSeq(password, 1, Len(password) - 1),
                out \o (IF outTTY
                        THEN <<Log(1, RL_REFRESH, <<SubSeq(password, 1, Len(password) - 1)>>)>>
                        ELSE <<>>)
                    \o <<Log(1, question, <<[k \in 1..(Len(password) - 1) |-> 42]>>)>>)
    ELSE OnData(question, chunks, i + 1, outTTY, password, out)
  ELSE OnData(question, chunks, i + 1, outTTY, password \o chunks[i],
              out \o Echo(outTTY, chunks[i]) \o <<Log(1, "*", <<>>)>>)

\* prompt(question, hidden) on a line of input: the answer and the writes
prompt(question, hidden, chunks, inTTY, outTTY) ==
  IF hidden /\ inTTY
  THEN OnData(question, chunks, 1, outTTY, <<>>, <<Log(1, question, <<>>)>>)
  ELSE Question(question, chunks, outTTY)

Q_PROCEED == "\nProceed with encryption? (y/N): "
Q_PASSWORD == "Enter master password: "
Q_CONFIRM == "Confirm master password: "
Q_VALUE == "Enter value to encrypt: "
Q_SURE == "Are you sure? (y/N): "
MIN_PASSWORD_LENGTH == 8

\* proceed.toLowerCase() on the answers the tool compares with 'y'
toLowerCase(text) == [i \in 1..Len(text) |-> IF text[i] >= 65 /\ text[i] <= 90
                                              THEN text[i] + 32 ELSE text[i]]

\* countEncryptedFields(obj).encrypted
RECURSIVE countEncryptedFields(_)
RECURSIVE CountFrom(_, _)
CountFrom(obj, i) ==
  IF i > Len(obj.v) THEN 0
  ELSE countEncryptedFields(ValueAt(obj, i)) + CountFrom(obj, i + 1)
countEncryptedFields(obj) ==
  IF obj.t = "string" THEN (IF isEncrypted(obj.s) THEN 1 ELSE 0)
  ELSE IF obj.t \in {"array", "object"} THEN CountFrom(obj, 1)
  ELSE 0

\* yaml.dump(obj): the text, as its lines <<path of a leaf, the leaf>> in
\* document order (an empty array or object is a leaf of the text)
RECURSIVE yamlDump(_, _)
RECURSIVE DumpFrom(_, _, _)
DumpFrom(obj, i, path) ==
  IF i > Len(obj.v) THEN <<>>
  ELSE yamlDump(ValueAt(obj, i), ChildPath(obj, i, path)) \o DumpFrom(obj, i + 1, path)
yamlDump(obj, path) ==
  IF obj.t \in {"array", "object"} /\ Len(obj.v) > 0 THEN DumpFrom(obj, 1, path)
  ELSE <<<<path, obj>>>>

\* ------------------------------------------------------------------------
\* State
\* ------------------------------------------------------------------------
VARIABLES
  plaintext,       \* cipher harness: the plaintext given to encrypt
  masterPassword,  \* cipher harness: the master password given to encrypt
  rng,             \* position of the crypto.randomBytes stream
  envelopes,       \* cipher harness: the results of the encrypt calls, in order
  decrypted,       \* cipher harness: the last decrypt call and its result
  decryptedText,   \* cipher harness: a decrypt call on a text encrypt did not return
  document,        \* tree codec harness: the document given to the codec
  encryptedDoc,    \* tree codec harness: the result of encryptSensitiveFields
  leafDecrypted,   \* tree codec harness: a decrypt call on a leaf of the result
  encryptedAgain,  \* tree codec harness: encryptSensitiveFields on the result
  listed,          \* tree codec harness: the result of listSensitiveFields
  decryptedDoc,    \* tree codec harness: a decryptObject call and its result
  join,            \* tree codec harness: a Promise.all over children, as they settle
  env,             \* startup: process.env
  defaults,        \* startup: the content of config/default.json
  file,            \* startup: the configuration file on disk
  config,          \* startup: the stores of the nconf provider, in order
  pc,              \* startup: the step the process is at
  error,           \* startup: the error the startup threw, if any
  imports,         \* startup: the number of doImport runs started
  fatal,           \* startup: the runs whose doImport threw, caught in run()
  snapshot,        \* startup: the configuration snapshot init() logged
  cronJob,         \* startup: the expression the job is scheduled with, if any
  exitCode,        \* startup: process.exitCode
  args,            \* encryption tool: process.argv.slice(2)
  tty,             \* encryption tool: isTTY of process.stdin and process.stdout
  typed,           \* encryption tool: the lines of input not yet read
  answers,         \* encryption tool: the answers the prompts resolved with
  inputFile,       \* encryption tool: the input file on disk
  toolPc,          \* encryption tool: the step the process is at
  value,           \* encryption tool: the value read by encryptSingleValue
  console,         \* encryption tool: the writes to stdout and stderr, in order
  written,         \* encryption tool: the writeFile calls that succeeded
  toolExit,        \* encryption tool: the exit code, -1 while it runs
  flatUsers,       \* scraper: the accounts given to scrapAccounts
  scraperConfig,   \* scraper: config.get('scraper')
  scrapPc,         \* scraper: where the promise of scrapAccounts is
  inFlight,        \* scraper: the accounts whose scraper.scrape is pending
  started,         \* scraper: the accounts scrape was called for, in order
  scraped,         \* scraper: what scraper.scrape did for each account
  settled,         \* scraper: the results of the scrape calls, by account
  collected        \* scraper: the list scrapAccounts builds and resolves with

cipherVars == <<plaintext, envelopes, decrypted, decryptedText>>
treeVars ==
  <<document, encryptedDoc, leafDecrypted, encryptedAgain, listed, decryptedDoc, join>>
loaderVars ==
  <<env, defaults, file, config, pc, error, imports, fatal, snapshot, cronJob,
    exitCode>>
toolVars == <<args, tty, typed, answers, inputFile, toolPc, value, console, written, toolExit>>
scrapeVars ==
  <<flatUsers, scraperConfig, scrapPc, inFlight, started, scraped, settled, collected>>
vars == <<masterPassword, rng, cipherVars, treeVars, loaderVars, toolVars, scrapeVars>>

\* ------------------------------------------------------------------------
\* Startup: index.js running loadConfig over a file and an environment
\* ------------------------------------------------------------------------
\* 'correct-horse-battery' and 'wrong-secret'
PW_CORRECT == <<99, 111, 114, 114, 101, 99, 116, 45, 104, 111, 114, 115, 101, 45, 98, 97,
                116, 116, 101, 114, 121>>
PW_WRONG == <<119, 114, 111, 110, 103, 45, 115, 101, 99, 114, 101, 116>>
S_fileval == <<102, 105, 108, 101, 118, 97, 108>>
S_envval == <<101, 110, 118, 118, 97, 108>>
S_secret == <<115, 51, 99, 114, 101, 116>>
S_envsecret == <<101, 110, 118, 115, 101, 99, 114, 101, 116>>
S_leumi == <<108, 101, 117, 109, 105>>
S_isracard == <<105, 115, 114, 97, 99, 97, 114, 100>>
S_url == <<104, 116, 116, 112, 58, 47, 47, 102, 105, 114, 101, 102, 108, 121>>
S_envurl == <<104, 116, 116, 112, 58, 47, 47, 101, 110, 118>>
S_cron == <<42, 32, 42, 32, 42, 32, 42, 32, 42>>
S_info == <<105, 110, 102, 111>>
S_debug == <<100, 101, 98, 117, 103>>
S_30 == <<51, 48>>
S_date == <<50, 48, 50, 52, 45, 48, 49, 45, 48, 49>>
S_otherYaml == <<47, 100, 97, 116, 97, 47, 111, 116, 104, 101, 114, 46, 121, 97, 109, 108>>

\* envelopes found in files and variables: 's3cret' under the master
\* password, 's3cret' under another password, 'envsecret' under the master
\* password
FILE_GOOD == encrypt(S_secret, PW_CORRECT, 7).val
FILE_BAD == encrypt(S_secret, PW_WRONG, 9).val
ENV_GOOD == encrypt(S_envsecret, PW_CORRECT, 11).val

\* config/default.json: no defaults, or defaults for the log and the scraper
DEFAULT_JSONS ==
  {Obj(<<>>),
   Obj(<< <<K_log, Obj(<< <<K_level, Str(S_info)>> >>)>>,
          <<K_scraper, Obj(<< <<K_parallel, Bool(TRUE)>> >>)>> >>)}

\* configuration documents
BankCredentials(password) ==
  Obj(<< <<K_username, Str(S_fileval)>>, <<K_password, password>>,
         <<K_id, Str(S_fileval)>>, <<K_userCode, Str(S_fileval)>> >>)
CardCredentials(password) ==
  Obj(<< <<K_username, Str(S_fileval)>>, <<K_password, password>>,
         <<K_id, Str(S_fileval)>>, <<K_card6Digits, Str(S_fileval)>> >>)
Card(password) ==
  Obj(<< <<K_type, Str(S_isracard)>>, <<K_credentials, CardCredentials(password)>> >>)
Bank(password, creditCards) ==
  Obj(<< <<K_type, Str(S_leumi)>>, <<K_credentials, BankCredentials(password)>> >>
      \o (IF creditCards.t = "undefined" THEN <<>>
          ELSE << <<K_creditCards, creditCards>> >>))
Document(tokenApi, banks, cron) ==
  Obj(<< <<K_firefly,
           Obj(<< <<K_baseUrl, Str(S_url)>> >>
               \o (IF tokenApi.t = "undefined" THEN <<>>
                   ELSE << <<K_tokenApi, tokenApi>> >>))>> >>
      \o (IF banks.t = "undefined" THEN <<>> ELSE << <<K_banks, banks>> >>)
      \o (IF cron.t = "undefined" THEN <<>> ELSE << <<K_cron, cron>> >>))

FILE_LEAVES == {Str(S_fileval), Str(FILE_GOOD), Str(FILE_BAD)}
BANKS ==
  {Undefined, Arr(<<>>)}
    \cup {Arr(<<Bank(p, Undefined)>>) : p \in FILE_LEAVES}
    \cup {Arr(<<Bank(p, Arr(<<Card(q)>>))>>) :
            p \in {Str(S_fileval), Str(FILE_GOOD)}, q \in FILE_LEAVES}
    \cup {Arr(<<Bank(Str(S_fileval), Undefined), Bank(p, Undefined)>>) :
            p \in {Str(S_fileval), Str(FILE_GOOD)}}
DOCUMENTS ==
  {Document(t, b, Undefined) : t \in FILE_LEAVES \cup {Undefined}, b \in BANKS}
    \cup {Document(Str(S_fileval), Arr(<<Bank(Str(S_fileval), Undefined)>>), Str(S_cron))}
FILES ==
  {[kind |-> "missing", doc |-> Undefined], [kind |-> "unparsable", doc |-> Undefined]}
    \cup {[kind |-> "document", doc |-> d] : d \in DOCUMENTS}

\* environments: one credential variable or FIREFLY_TOKEN_API is set at most,
\* with and without MASTER_PASSWORD, or one of the other variables of envMap
BANK_SLOTS == {0, 1} \X {BANK_FIELDS[k][1] : k \in 1..Len(BANK_FIELDS)}
CC_SLOTS == {0} \X {0} \X {CC_FIELDS[k][1] : k \in 1..Len(CC_FIELDS)}
NoTop == [n \in ENV_TOP |-> Undefined]
NoBank == [s \in BANK_SLOTS |-> Undefined]
NoCc == [s \in CC_SLOTS |-> Undefined]
NoEnv == [top |-> NoTop, bank |-> NoBank, cc |-> NoCc]
CREDENTIAL_ENVS ==
  {[NoEnv EXCEPT !.top["FIREFLY_TOKEN_API"] = v] :
     v \in {Undefined, Str(<<>>), Str(S_envval), Str(ENV_GOOD)}}
    \cup {[NoEnv EXCEPT !.bank[s] = Str(S_envval)] :
            s \in ({0} \X {"USERNAME", "PASSWORD", "ID", "USERCODE"})
                    \cup {<<1, "PASSWORD">>}}
    \cup {[NoEnv EXCEPT !.bank[<<0, "PASSWORD">>] = v] : v \in {Str(<<>>), Str(ENV_GOOD)}}
    \cup {[NoEnv EXCEPT !.cc[s] = Str(S_envval)] : s \in CC_SLOTS}
    \cup {[NoEnv EXCEPT !.cc[<<0, 0, "PASSWORD">>] = Str(ENV_GOOD)]}
ENVIRONMENTS ==
  {[e EXCEPT !.top["MASTER_PASSWORD"] = m] :
     m \in {Undefined, Str(<<>>), Str(PW_CORRECT)}, e \in CREDENTIAL_ENVS}
    \cup {[NoEnv EXCEPT !.top[n[1]] = n[2]] :
            n \in {<<"FIREFLY_BASE_URL", Str(S_envurl)>>, <<"CRON", Str(S_cron)>>,
                   <<"LOG_LEVEL", Str(S_debug)>>, <<"SCRAPER_TIMEOUT", Str(S_30)>>,
                   <<"SCRAPER_START_DATE", Str(S_date)>>,
                   <<"SCRAPER_PARALLEL", Str(S_30)>>,
                   <<"CONFIG_FILE", Str(S_otherYaml)>>}}

\* the runs of the import a behaviour follows
MaxRuns == 2

ERR_PARSE == "Error parsing your configuration file"
ERR_MISSING_REQUIRED == "Missing required keys"
ERR_TYPE == "TypeError"
ERR_MASTER_REQUIRED ==
  "Encrypted credentials detected but MASTER_PASSWORD environment variable is not set."
ERR_FAILED_TO_DECRYPT == "Failed to decrypt credentials"

NoError == [thrown |-> FALSE, at |-> "", message |-> "", detail |-> <<>>]
Thrown(at, message, detail) ==
  [thrown |-> TRUE, at |-> at, message |-> message, detail |-> detail]

IdleLoader ==
  /\ env = NoEnv
  /\ defaults = Obj(<<>>)
  /\ file = [kind |-> "missing", doc |-> Undefined]
  /\ config = <<>>
  /\ pc = "off"
  /\ error = NoError
  /\ imports = 0
  /\ fatal = 0
  /\ snapshot = Undefined
  /\ cronJob = Undefined
  /\ exitCode = 0

IdleScraper ==
  /\ flatUsers = <<>>
  /\ scraperConfig = Undefined
  /\ scrapPc = "off"
  /\ inFlight = {}
  /\ started = <<>>
  /\ scraped = <<>>
  /\ settled = <<>>
  /\ collected = <<>>

IdleTool ==
  /\ args = <<>>
  /\ tty = [stdin |-> FALSE, stdout |-> FALSE]
  /\ typed = <<>>
  /\ answers = <<>>
  /\ inputFile = [kind |-> "missing", doc |-> Undefined]
  /\ toolPc = "off"
  /\ value = <<>>
  /\ console = <<>>
  /\ written = <<>>
  /\ toolExit = -1

\* ------------------------------------------------------------------------
\* Cipher harness: encrypt and decrypt applied to inputs from bounded sets
\* ------------------------------------------------------------------------
\* the random stream may be at any position when the process first draws
MaxSeed == 0

\* '', 'e-acute + U+1F600' (a 2-byte and a 4-byte character), and a string
\* that is one unpaired high surrogate (YAML "\uD83D")
PLAINTEXTS == {<<>>, <<233, 55357, 56832>>, <<55357>>}

\* '', 'p e-acute', an unpaired high and an unpaired low surrogate
PASSWORDS == {<<>>, <<112, 233>>, <<55357>>, <<56832>>}

\* no code unit of the string is an unpaired surrogate
WellFormed(s) ==
  \A i \in 1..Len(s) :
    /\ IsHighSurrogate(s[i]) => (i < Len(s) /\ IsLowSurrogate(s[i + 1]))
    /\ IsLowSurrogate(s[i]) => (i > 1 /\ IsHighSurrogate(s[i - 1]))

\* texts that encrypt did not return: '', 'abc123', 'encrypted:v2:AAAA',
\* 'Encrypted:v1:AAAA', 'encrypted:v1' and ' encrypted:v1:AAAA' lack the
\* prefix; 'encrypted:v1:AAAA' carries it
T_plain == <<97, 98, 99, 49, 50, 51>>
T_v2 == <<101, 110, 99, 114, 121, 112, 116, 101, 100, 58, 118, 50, 58, 65, 65, 65, 65>>
T_capital == <<69, 110, 99, 114, 121, 112, 116, 101, 100, 58, 118, 49, 58, 65, 65, 65, 65>>
T_noColon == <<101, 110, 99, 114, 121, 112, 116, 101, 100, 58, 118, 49>>
T_leadingSpace == <<32, 101, 110, 99, 114, 121, 112, 116, 101, 100, 58, 118, 49, 58, 65, 65, 65, 65>>
T_v1 == <<101, 110, 99, 114, 121, 112, 116, 101, 100, 58, 118, 49, 58, 65, 65, 65, 65>>
TEXTS == {<<>>, T_plain, T_v2, T_capital, T_noColon, T_leadingSpace, T_v1}

NotDecrypted == [done |-> FALSE]
NotDone == [done |-> FALSE]
JoinOff == [phase |-> "off"]

\* the harnesses that a specification does not use stay idle
IdleCipher ==
  /\ plaintext = <<>> /\ envelopes = <<>> /\ decrypted = NotDecrypted
  /\ decryptedText = NotDone
IdleTree ==
  /\ document = Null /\ encryptedDoc = NotDone /\ leafDecrypted = NotDone
  /\ encryptedAgain = NotDone /\ listed = NotDone /\ decryptedDoc = NotDone
  /\ join = JoinOff

InitCipher ==
  /\ plaintext \in PLAINTEXTS
  /\ masterPassword \in PASSWORDS
  /\ rng \in 0..MaxSeed
  /\ envelopes = <<>>
  /\ decrypted = NotDecrypted
  /\ decryptedText = NotDone
  /\ IdleTree
  /\ IdleLoader
  /\ IdleTool
  /\ IdleScraper

\* a call encrypt(plaintext, masterPassword); at most two calls are made
Encrypt ==
  /\ Len(envelopes) < 2
  /\ envelopes' = Append(envelopes, encrypt(plaintext, masterPassword, rng))
  /\ rng' = IF plaintext = <<>> \/ masterPassword = <<>> THEN rng ELSE rng + 2
  /\ decrypted' = NotDecrypted
  /\ decryptedText' = NotDone
  /\ UNCHANGED <<plaintext, masterPassword, treeVars, loaderVars, toolVars,
                 scrapeVars>>

\* a call decrypt(e, pw) on the envelope of call k, as it was returned
Decrypt ==
  \E k \in 1..Len(envelopes), pw \in PASSWORDS :
    /\ ~decrypted.done
    /\ envelopes[k].ok
    /\ decrypted' = [done |-> TRUE, of |-> k, flipped |-> FALSE, byte |-> 0,
                     pw |-> pw, text |-> envelopes[k].val,
                     out |-> decrypt(envelopes[k].val, pw)]
    /\ UNCHANGED <<plaintext, masterPassword, rng, envelopes, decryptedText, treeVars,
                   loaderVars, toolVars,
                 scrapeVars>>

\* the envelope text with bit `bit` of byte `byte` of its base64-decoded
\* bytes flipped
FlipBit(text, byte, bit) ==
  LET combined == Base64Decode(Slice(text, Len(ENCRYPTED_PREFIX), Len(text)))
  IN  ENCRYPTED_PREFIX
        \o Base64Encode([combined EXCEPT ![byte] = Xor(@, 2 ^ bit)])

EnvelopeBytes(text) == Len(Base64Decode(Slice(text, Len(ENCRYPTED_PREFIX), Len(text))))

\* a call decrypt(e', masterPassword) on the envelope of call k with one bit
\* of its bytes flipped
DecryptTampered ==
  \E k \in 1..Len(envelopes) :
    /\ ~decrypted.done
    /\ envelopes[k].ok
    /\ \E byte \in 1..EnvelopeBytes(envelopes[k].val), bit \in 0..7 :
         LET text == FlipBit(envelopes[k].val, byte, bit)
         IN  decrypted' = [done |-> TRUE, of |-> k, flipped |-> TRUE, byte |-> byte,
                           pw |-> masterPassword, text |-> text,
                           out |-> decrypt(text, masterPassword)]
    /\ UNCHANGED <<plaintext, masterPassword, rng, envelopes, decryptedText, treeVars,
                   loaderVars, toolVars,
                 scrapeVars>>

\* a call decrypt(text, pw) on a text that encrypt did not return, before the
\* first call of encrypt
DecryptText ==
  \E text \in TEXTS, pw \in PASSWORDS :
    /\ envelopes = <<>>
    /\ ~decryptedText.done
    /\ decryptedText' = [done |-> TRUE, text |-> text, pw |-> pw, out |-> decrypt(text, pw)]
    /\ UNCHANGED <<plaintext, masterPassword, rng, envelopes, decrypted, treeVars,
                   loaderVars, toolVars,
                 scrapeVars>>

NextCipher == Encrypt \/ Decrypt \/ DecryptTampered \/ DecryptText

SpecCipher == InitCipher /\ [][NextCipher]_vars

\* ------------------------------------------------------------------------
\* Tree codec harness: encryptSensitiveFields applied to documents
\* ------------------------------------------------------------------------
S_u == <<117>>
S_p == <<112>>
S_n == <<110>>
S_abc123 == <<97, 98, 99, 49, 50, 51>>
\* 'encrypted:v1:AAAA', a text that carries the prefix
S_prefixed == ENCRYPTED_PREFIX \o <<65, 65, 65, 65>>

\* {credentials: {username: 'u', password: 'p'}, name: 'n'}
DOC_CREDENTIALS ==
  Obj(<< <<K_credentials, Obj(<< <<K_username, Str(S_u)>>, <<K_password, Str(S_p)>> >>)>>,
         <<K_name, Str(S_n)>> >>)
\* {tokenApi: 'abc123'}
DOC_TOKEN == Obj(<< <<K_tokenApi, Str(S_abc123)>> >>)
\* {firefly: {tokenApi: 'abc123'},
\*  banks: [{type: 'u', credentials: {username: 'u', password: 'p'}}]}
DOC_BANKS ==
  Obj(<< <<K_firefly, Obj(<< <<K_tokenApi, Str(S_abc123)>> >>)>>,
         <<K_banks, Arr(<< Obj(<< <<K_type, Str(S_u)>>,
                                  <<K_credentials,
                                    Obj(<< <<K_username, Str(S_u)>>,
                                           <<K_password, Str(S_p)>> >>)>> >>) >>)>> >>)

TREE_LEAVES == {Str(S_u), Str(<<32>>), Str(<<>>), Str(S_prefixed), Num(6), Null}
TREE_KEYS == {K_credentials, K_username, K_password, K_name, K_tokenApi, K_proto}
\* a leaf, an object of one leaf, an array of one leaf
TREE_NODES ==
  TREE_LEAVES
    \cup {Obj(<< <<k, l>> >>) : k \in TREE_KEYS, l \in TREE_LEAVES}
    \cup {Arr(<<l>>) : l \in TREE_LEAVES}
\* JSON.parse('{"firefly": {"__proto__": {"tokenApi": "abc123"}, "name": "n"}}'),
\* and the same document with the value already an envelope
DOC_PROTO ==
  Obj(<< <<K_firefly, Obj(<< <<K_proto, Obj(<< <<K_tokenApi, Str(S_abc123)>> >>)>>,
                             <<K_name, Str(S_n)>> >>)>> >>)
DOC_PROTO_ENCRYPTED ==
  Obj(<< <<K_firefly, Obj(<< <<K_proto, Obj(<< <<K_tokenApi, Str(FILE_GOOD)>> >>)>>,
                             <<K_name, Str(S_n)>> >>)>> >>)
\* {firefly: {tokenApi: <envelope>, baseUrl: 'u'}, banks: [<envelope>, 6, true, null]}
DOC_ENCRYPTED ==
  Obj(<< <<K_firefly, Obj(<< <<K_tokenApi, Str(FILE_GOOD)>>, <<K_baseUrl, Str(S_u)>> >>)>>,
         <<K_banks, Arr(<<Str(FILE_GOOD), Num(6), Bool(TRUE), Null>>)>> >>)
TREE_DOCS ==
  {DOC_CREDENTIALS, DOC_TOKEN, DOC_BANKS, DOC_PROTO, DOC_PROTO_ENCRYPTED, DOC_ENCRYPTED}
    \cup {Obj(<< <<k, n>> >>) : k \in TREE_KEYS, n \in TREE_NODES}

InitTree ==
  /\ document \in TREE_DOCS
  /\ masterPassword \in {<<>>, PW_CORRECT}
  /\ rng \in 0..MaxSeed
  /\ encryptedDoc = NotDone
  /\ leafDecrypted = NotDone
  /\ encryptedAgain = NotDone
  /\ listed = NotDone
  /\ decryptedDoc = NotDone
  /\ join = JoinOff
  /\ IdleCipher
  /\ IdleLoader
  /\ IdleTool
  /\ IdleScraper

\* a call encryptSensitiveFields(document, masterPassword)
EncryptDocument ==
  /\ ~encryptedDoc.done
  /\ \E r \in {encryptSensitiveFields(document, masterPassword, <<>>, rng)} :
         /\ encryptedDoc' = IF r.ok THEN [done |-> TRUE, ok |-> TRUE, val |-> r.val]
                            ELSE [done |-> TRUE, ok |-> FALSE, err |-> r.err]
         /\ rng' = r.rng
  /\ UNCHANGED <<document, masterPassword, leafDecrypted, encryptedAgain, listed,
               decryptedDoc, join, cipherVars,
               loaderVars, toolVars,
                 scrapeVars>>

\* a call decrypt(text, pw) on a string leaf of the returned document
DecryptLeaf ==
  /\ encryptedDoc.done /\ encryptedDoc.ok
  /\ ~leafDecrypted.done
  /\ \E leaf \in StringLeaves(encryptedDoc.val, <<>>), pw \in {PW_CORRECT, PW_WRONG} :
       leafDecrypted' = [done |-> TRUE, path |-> leaf[1], text |-> leaf[2], pw |-> pw,
                         out |-> decrypt(leaf[2], pw)]
  /\ UNCHANGED <<document, masterPassword, rng, encryptedDoc, encryptedAgain, listed,
               decryptedDoc, join, cipherVars,
               loaderVars, toolVars,
                 scrapeVars>>

\* a second call encryptSensitiveFields(d, masterPassword), on the document
\* the first call returned
EncryptAgain ==
  /\ encryptedDoc.done /\ encryptedDoc.ok
  /\ ~encryptedAgain.done
  /\ \E r \in {encryptSensitiveFields(encryptedDoc.val, masterPassword, <<>>, rng)} :
         /\ encryptedAgain' = IF r.ok THEN [done |-> TRUE, ok |-> TRUE, val |-> r.val]
                              ELSE [done |-> TRUE, ok |-> FALSE, err |-> r.err]
         /\ rng' = r.rng
  /\ UNCHANGED <<document, masterPassword, encryptedDoc, leafDecrypted, listed,
               decryptedDoc, join, cipherVars,
               loaderVars, toolVars,
                 scrapeVars>>

\* a call listSensitiveFields(document)
ListSensitiveFields ==
  /\ ~listed.done
  /\ listed' = [done |-> TRUE, val |-> listSensitiveFields(document, <<>>, <<>>)]
  /\ UNCHANGED <<document, masterPassword, rng, encryptedDoc, leafDecrypted,
               encryptedAgain, decryptedDoc, join, cipherVars,
               loaderVars, toolVars,
                 scrapeVars>>

\* a call decryptObject(obj, pw) on the document or on the document that
\* encryptSensitiveFields returned
DecryptDocument ==
  /\ ~decryptedDoc.done
  /\ \E obj \in {document} \cup (IF encryptedDoc.done /\ encryptedDoc.ok
                                 THEN {encryptedDoc.val} ELSE {}),
        pw \in {<<>>, PW_CORRECT, PW_WRONG} :
       decryptedDoc' = [done |-> TRUE, obj |-> obj, pw |-> pw,
                        out |-> decryptObject(obj, pw)]
  /\ UNCHANGED <<document, masterPassword, rng, encryptedDoc, leafDecrypted,
               encryptedAgain, listed, join, cipherVars,
               loaderVars, toolVars,
                 scrapeVars>>

\* the arrays and objects a call can be made on: the document and its
\* children, each with its path
JoinNodes ==
  {n \in {<<<<>>, document>>}
           \cup (IF document.t \in {"array", "object"}
                 THEN {<<ChildPath(document, i, <<>>), ValueAt(document, i)>> :
                         i \in 1..Len(document.v)}
                 ELSE {}) : n[2].t \in {"array", "object"}}
\* the state of a call whose children were started
Started(kind, obj, results) ==
  [phase |-> IF Len(obj.v) = 0 THEN "resolved" ELSE "pending", kind |-> kind, obj |-> obj,
   results |-> results, pending |-> 1..Len(obj.v), settled |-> <<>>]

\* decryptObject(obj, pw) on an array or object: the children are started
StartDecryptObject ==
  /\ join.phase = "off"
  /\ \E n \in JoinNodes, pw \in {PW_CORRECT, PW_WRONG} :
       join' = Started("decryptObject", n[2], DecryptEach(n[2], pw))
  /\ UNCHANGED <<document, masterPassword, rng, encryptedDoc, leafDecrypted, encryptedAgain,
                 listed, decryptedDoc, cipherVars, loaderVars, toolVars,
                 scrapeVars>>

\* encryptSensitiveFields(obj, masterPassword, path) on an array or object:
\* the children are started
StartEncryptSensitiveFields ==
  /\ join.phase = "off"
  /\ \E n \in JoinNodes :
       \E results \in {EncryptEach(n[2], 1, masterPassword, n[1], rng)} :
         /\ join' = Started("encryptSensitiveFields", n[2], results)
         /\ rng' = IF results = <<>> THEN rng ELSE results[Len(results)].rng
  /\ UNCHANGED <<document, masterPassword, encryptedDoc, leafDecrypted, encryptedAgain,
                 listed, decryptedDoc, cipherVars, loaderVars, toolVars,
                 scrapeVars>>

\* the promise of one child settles, in any order: its callback assigns the
\* value, or its rejection rejects the call
ChildSettles ==
  /\ join.phase = "pending"
  /\ \E i \in join.pending :
       join' = IF join.results[i].ok
               THEN [join EXCEPT !.pending = @ \ {i}, !.settled = Append(@, i),
                                 !.phase = IF join.pending = {i} THEN "resolved"
                                           ELSE "pending"]
               ELSE [join EXCEPT !.pending = @ \ {i}, !.phase = "rejected"]
  /\ UNCHANGED <<document, masterPassword, rng, encryptedDoc, leafDecrypted, encryptedAgain,
                 listed, decryptedDoc, cipherVars, loaderVars, toolVars,
                 scrapeVars>>

NextTree ==
  EncryptDocument \/ DecryptLeaf \/ EncryptAgain \/ ListSensitiveFields \/ DecryptDocument

SpecTree == InitTree /\ [][NextTree]_vars

\* one call of decryptObject or encryptSensitiveFields on an array or object,
\* followed through the settling of its children
NextJoin == StartDecryptObject \/ StartEncryptSensitiveFields \/ ChildSettles

SpecJoin == InitTree /\ [][NextJoin]_vars

\* ------------------------------------------------------------------------
\* Encryption tool harness: main of cli-encrypt.js over arguments, an input
\* file and the lines an operator types or pipes in
\* ------------------------------------------------------------------------
S_y == <<121>>
S_inYaml == <<105, 110, 46, 121, 97, 109, 108>>
S_outYaml == <<111, 117, 116, 46, 121, 97, 109, 108>>
S_12345678 == <<49, 50, 51, 52, 53, 54, 55, 56>>
S_1234567 == <<49, 50, 51, 52, 53, 54, 55>>
ARGVS ==
  {<<>>, <<A_i, S_inYaml, A_o, S_outYaml>>, <<A_input, S_inYaml, A_output, S_inYaml>>,
   <<A_o>>, <<A_i>>, <<A_help>>, <<A_h, A_i, S_inYaml>>, <<A_d>>, <<A_decrypt, A_o, S_outYaml>>,
   <<A_e>>, <<A_encryptValue, A_d>>, <<<<45, 120>>>>, <<A_i, A_h>>, <<S_inYaml>>}

\* lines of input, each the data chunks before the Enter key
L_y == <<S_y>>
L_Y == <<<<89>>>>
L_n == <<S_n>>
L_empty == <<>>
\* the password pasted, typed in two chunks, and typed with a correction
L_pasted == <<PW_CORRECT>>
L_twoChunks == <<SubSeq(PW_CORRECT, 1, 7), SubSeq(PW_CORRECT, 8, Len(PW_CORRECT))>>
L_eight == <<S_12345678>>
L_corrected == <<S_12345678, <<57>>, <<127>>>>
L_seven == <<S_1234567>>
L_ctrlC == <<S_1234567, <<3>>>>
SCRIPTS ==
  {<<>>, <<L_n>>, <<L_empty>>, <<L_y>>, <<L_y, L_pasted>>,
   <<L_y, L_pasted, L_pasted>>, <<L_Y, L_pasted, L_pasted>>,
   <<L_y, L_twoChunks, L_pasted>>, <<L_y, L_eight, L_corrected>>,
   <<L_y, L_seven, L_seven>>, <<L_y, L_pasted, L_eight>>, <<L_y, L_ctrlC>>,
   <<<<S_abc123>>, L_pasted, L_pasted>>, <<L_empty, L_pasted, L_pasted>>}

\* the input file: absent, no YAML, or the YAML text of a document
TOOL_FILES ==
  {[kind |-> "missing", doc |-> Undefined], [kind |-> "unparsable", doc |-> Undefined]}
    \cup {[kind |-> "document", doc |-> d] :
            d \in {DOC_BANKS, DOC_CREDENTIALS, DOC_TOKEN, DOC_ENCRYPTED, DOC_PROTO, Undefined}}

InitTool ==
  /\ args \in ARGVS
  /\ tty \in [stdin : BOOLEAN, stdout : BOOLEAN]
  /\ typed \in SCRIPTS
  /\ answers = <<>>
  /\ inputFile \in TOOL_FILES
  /\ toolPc = "main"
  /\ value = <<>>
  /\ console = <<>>
  /\ written = <<>>
  /\ toolExit = -1
  /\ masterPassword = <<>>
  /\ rng \in 0..MaxSeed
  /\ IdleCipher
  /\ IdleTree
  /\ IdleLoader
  /\ IdleScraper

\* process.exit(code), or the end of main
Exit(code) == toolPc' = "exited" /\ toolExit' = code

\* the text a template shows for a path option
PathText(node) == IF node.t = "string" THEN node.s ELSE <<117, 110, 100, 101, 102, 105, 110, 101, 100>>

\* main: parseArgs, then --help, --encrypt-value or --decrypt up to their
\* first prompt, or the call of encryptConfig
Main ==
  /\ toolPc = "main"
  /\ \E o \in {parseArgs(args)} :
       IF o.unknown # Undefined THEN
         /\ console' = Append(console, Log(2, "Unknown option: ${arg}", <<o.unknown.s>>))
         /\ Exit(1)
       ELSE IF o.help THEN
         /\ console' = Append(console, Log(1, "HELP_TEXT", <<>>))
         /\ Exit(0)
       ELSE IF o.encryptValue THEN
         /\ console' = console \o <<Log(1, "\nEncrypt a single value", <<>>),
                                   Log(1, "(Useful for manually adding encrypted values to config)\n", <<>>)>>
         /\ toolPc' = "value"
         /\ UNCHANGED toolExit
       ELSE IF o.decrypt THEN
         /\ console' = console \o <<Log(1, "\nDecrypt mode is for verification only.", <<>>),
                                   Log(1, "WARNING: This will display decrypted credentials!\n", <<>>)>>
         /\ toolPc' = "sure"
         /\ UNCHANGED toolExit
       ELSE
         /\ console' = Append(console, Log(1, "\nReading configuration from: ${inputFile}",
                                           <<PathText(o.input)>>))
         /\ toolPc' = "readFile"
         /\ UNCHANGED toolExit
  /\ UNCHANGED <<args, tty, typed, answers, inputFile, value, written, masterPassword, rng,
                 cipherVars, treeVars, loaderVars,
                 scrapeVars>>

\* console.log of every field of sensitiveFields, from field i on
RECURSIVE LogFields(_, _)
LogFields(fields, i) ==
  IF i > Len(fields) THEN <<>>
  ELSE <<Log(1, "  - ${field}", <<fields[i]>>)>> \o LogFields(fields, i + 1)

\* encryptConfig up to its first prompt: readFile, yaml.load,
\* listSensitiveFields and the list shown
ReadConfig ==
  /\ toolPc = "readFile"
  /\ IF parseArgs(args).input = Undefined \/ inputFile.kind = "missing" THEN
       /\ console' = Append(console, LogError(2, "Error reading file: ${error.message}", "readFile"))
       /\ Exit(1)
     ELSE IF inputFile.kind = "unparsable" THEN
       /\ console' = Append(console, LogError(2, "Error parsing YAML: ${error.message}", "YAMLException"))
       /\ Exit(1)
     ELSE IF listSensitiveFields(inputFile.doc, <<>>, <<>>) = <<>> THEN
       /\ console' = console \o <<Log(1, "\nNo sensitive fields found to encrypt.", <<>>),
                                 Log(1, "Fields already encrypted or no credentials present.", <<>>)>>
       /\ Exit(0)
     ELSE
       /\ console' = console
                       \o <<Log(1, "\nThe following sensitive fields will be encrypted:", <<>>)>>
                       \o LogFields(listSensitiveFields(inputFile.doc, <<>>, <<>>), 1)
       /\ toolPc' = "proceed"
       /\ UNCHANGED toolExit
  /\ UNCHANGED <<args, tty, typed, answers, inputFile, value, written, masterPassword, rng,
                 cipherVars, treeVars, loaderVars,
                 scrapeVars>>

\* the answer to 'Proceed with encryption? (y/N): '
Proceed ==
  /\ toolPc = "proceed"
  /\ typed # <<>>
  /\ typed' = Tail(typed)
  /\ \E r \in {prompt(Q_PROCEED, FALSE, Head(typed), tty.stdin, tty.stdout)} :
       /\ answers' = IF r.exit THEN answers ELSE Append(answers, r.answer)
       /\ IF toLowerCase(r.answer) # S_y THEN
            /\ console' = console \o r.out \o <<Log(1, "Aborted.", <<>>)>>
            /\ Exit(0)
          ELSE
            /\ console' = console \o r.out
            /\ toolPc' = "password"
            /\ UNCHANGED toolExit
  /\ UNCHANGED <<args, tty, inputFile, value, written, masterPassword, rng,
                 cipherVars, treeVars, loaderVars,
                 scrapeVars>>

\* promptMasterPassword without the length test of lines 106-109
EnterPassword_anyLength ==
  /\ toolPc = "password"
  /\ typed # <<>>
  /\ typed' = Tail(typed)
  /\ \E r \in {prompt(Q_PASSWORD, TRUE, Head(typed), tty.stdin, tty.stdout)} :
       /\ answers' = IF r.exit THEN answers ELSE Append(answers, r.answer)
       /\ IF r.exit THEN
            /\ console' = console \o r.out
            /\ Exit(1)
            /\ UNCHANGED masterPassword
          ELSE
            /\ console' = console \o r.out
            /\ masterPassword' = r.answer
            /\ toolPc' = "confirm"
            /\ UNCHANGED toolExit
  /\ UNCHANGED <<args, tty, inputFile, value, written, rng, cipherVars, treeVars, loaderVars,
                 scrapeVars>>

\* promptMasterPassword: the answer to 'Enter master password: '
EnterPassword ==
  /\ toolPc = "password"
  /\ typed # <<>>
  /\ typed' = Tail(typed)
  /\ \E r \in {prompt(Q_PASSWORD, TRUE, Head(typed), tty.stdin, tty.stdout)} :
       /\ answers' = IF r.exit THEN answers ELSE Append(answers, r.answer)
       /\ IF r.exit THEN
            /\ console' = console \o r.out
            /\ Exit(1)
            /\ UNCHANGED masterPassword
          ELSE IF Len(r.answer) < MIN_PASSWORD_LENGTH THEN
            /\ console' = console \o r.out
                            \o <<Log(2, "Error: Password must be at least 8 characters long", <<>>)>>
            /\ Exit(1)
            /\ UNCHANGED masterPassword
          ELSE
            /\ console' = console \o r.out
            /\ masterPassword' = r.answer
            /\ toolPc' = "confirm"
            /\ UNCHANGED toolExit
  /\ UNCHANGED <<args, tty, inputFile, value, written, rng, cipherVars, treeVars, loaderVars,
                 scrapeVars>>

\* promptMasterPassword: the answer to 'Confirm master password: '
ConfirmPassword ==
  /\ toolPc = "confirm"
  /\ typed # <<>>
  /\ typed' = Tail(typed)
  /\ \E r \in {prompt(Q_CONFIRM, TRUE, Head(typed), tty.stdin, tty.stdout)} :
       /\ answers' = IF r.exit THEN answers ELSE Append(answers, r.answer)
       /\ IF r.exit THEN
            /\ console' = console \o r.out
            /\ Exit(1)
          ELSE IF masterPassword # r.answer THEN
            /\ console' = console \o r.out \o <<Log(2, "Error: Passwords do not match", <<>>)>>
            /\ Exit(1)
          ELSE
            /\ console' = console \o r.out
            /\ toolPc' = IF parseArgs(args).encryptValue THEN "encryptValue" ELSE "encrypt"
            /\ UNCHANGED toolExit
  /\ UNCHANGED <<args, tty, inputFile, value, written, masterPassword, rng,
                 cipherVars, treeVars, loaderVars,
                 scrapeVars>>

\* the writes after a writeFile that succeeded
SuccessLog(encryptedConfig, outputFile) ==
  <<Log(1, "\nSuccess! Encrypted ${counts.encrypted} sensitive field(s).",
        <<ToDecimal(countEncryptedFields(encryptedConfig))>>),
    Log(1, "Output written to: ${outputFile}", <<outputFile>>),
    Log(1, "\nIMPORTANT:", <<>>),
    Log(1, "  1. Delete or secure the original plaintext config file", <<>>),
    Log(1, "  2. Set MASTER_PASSWORD environment variable for automated runs", <<>>),
    Log(1, "  3. Update CONFIG_FILE to point to the encrypted file", <<>>)>>

\* encryptConfig after the prompts: encryptSensitiveFields, yaml.dump and
\* writeFile, which the file system lets succeed or fail
EncryptConfig ==
  /\ toolPc = "encrypt"
  /\ \E r \in {encryptSensitiveFields(inputFile.doc, masterPassword, <<>>, rng)},
        o \in {parseArgs(args)}, writable \in BOOLEAN :
       /\ rng' = r.rng
       /\ IF ~r.ok THEN
            /\ console' = console \o <<Log(1, "\nEncrypting sensitive fields...", <<>>),
                                      LogError(2, "\nEncryption failed: ${error.message}", r.err)>>
            /\ Exit(1)
            /\ UNCHANGED written
          ELSE IF o.output = Undefined \/ ~writable THEN
            /\ console' = console \o <<Log(1, "\nEncrypting sensitive fields...", <<>>),
                                      LogError(2, "\nEncryption failed: ${error.message}", "writeFile")>>
            /\ Exit(1)
            /\ UNCHANGED written
          ELSE
            /\ written' = Append(written, [path |-> o.output.s, content |-> yamlDump(r.val, <<>>)])
            /\ console' = console \o <<Log(1, "\nEncrypting sensitive fields...", <<>>)>>
                            \o SuccessLog(r.val, o.output.s)
            /\ Exit(0)
  /\ UNCHANGED <<args, tty, typed, answers, inputFile, value, masterPassword,
                 cipherVars, treeVars, loaderVars,
                 scrapeVars>>

\* encryptSingleValue: the answer to 'Enter value to encrypt: '
EnterValue ==
  /\ toolPc = "value"
  /\ typed # <<>>
  /\ typed' = Tail(typed)
  /\ \E r \in {prompt(Q_VALUE, FALSE, Head(typed), tty.stdin, tty.stdout)} :
       /\ answers' = IF r.exit THEN answers ELSE Append(answers, r.answer)
       /\ IF r.answer = <<>> THEN
            /\ console' = console \o r.out \o <<Log(2, "Error: Value cannot be empty", <<>>)>>
            /\ Exit(1)
            /\ UNCHANGED value
          ELSE
            /\ console' = console \o r.out
            /\ value' = r.answer
            /\ toolPc' = "password"
            /\ UNCHANGED toolExit
  /\ UNCHANGED <<args, tty, inputFile, written, masterPassword, rng,
                 cipherVars, treeVars, loaderVars,
                 scrapeVars>>

\* encryptSingleValue after the prompts: encrypt, the envelope shown, and
\* process.exit(0) of main
EncryptValue ==
  /\ toolPc = "encryptValue"
  /\ \E r \in {encrypt(value, masterPassword, rng)} :
       IF r.ok THEN
         /\ console' = console \o <<Log(1, "\nEncrypted value (copy this to your config):", <<>>),
                                   Log(1, "${encrypted}", <<r.val>>)>>
         /\ rng' = rng + 2
         /\ Exit(0)
       ELSE
         /\ console' = Append(console, LogError(2, "\nEncryption failed: ${error.message}", r.err))
         /\ UNCHANGED rng
         /\ Exit(1)
  /\ UNCHANGED <<args, tty, typed, answers, inputFile, value, written, masterPassword,
                 cipherVars, treeVars, loaderVars,
                 scrapeVars>>

\* --decrypt: the answer to 'Are you sure? (y/N): '; both answers end in
\* process.exit(0)
AreYouSure ==
  /\ toolPc = "sure"
  /\ typed # <<>>
  /\ typed' = Tail(typed)
  /\ \E r \in {prompt(Q_SURE, FALSE, Head(typed), tty.stdin, tty.stdout)} :
       /\ answers' = IF r.exit THEN answers ELSE Append(answers, r.answer)
       /\ console' = console \o r.out
                       \o (IF toLowerCase(r.answer) # S_y THEN <<>>
                           ELSE <<Log(1, "\nTo verify decryption, run the importer with MASTER_PASSWORD set.", <<>>),
                                  Log(1, "Check logs for successful credential loading.", <<>>)>>)
  /\ Exit(0)
  /\ UNCHANGED <<args, tty, inputFile, value, written, masterPassword, rng,
                 cipherVars, treeVars, loaderVars,
                 scrapeVars>>

NextTool ==
  \/ Main \/ ReadConfig \/ Proceed \/ EnterPassword \/ ConfirmPassword \/ EncryptConfig
  \/ EnterValue \/ EncryptValue \/ AreYouSure

SpecTool == InitTool /\ [][NextTool]_vars

\* ------------------------------------------------------------------------
\* Properties of the cipher engine (checked under SpecCipher)
\* ------------------------------------------------------------------------
\* decrypt was called with the master password on an envelope as encrypt
\* returned it
DecryptedWithSamePassword ==
  decrypted.done /\ ~decrypted.flipped /\ decrypted.pw = masterPassword

HEADER_LENGTH == SALT_LENGTH + IV_LENGTH + AUTH_TAG_LENGTH

\* C1 as stated: for every non-empty plaintext p and non-empty master
\* password s, decrypt(encrypt(p, s), s) returns exactly p.
C1_RoundTripEveryString ==
  DecryptedWithSamePassword => decrypted.out = Ok(plaintext)

\* C1 amended: for every non-empty plaintext p that holds no unpaired
\* surrogate and every non-empty master password s, decrypt(encrypt(p, s), s)
\* returns exactly p.
C1_RoundTripWellFormed ==
  (DecryptedWithSamePassword /\ WellFormed(plaintext)) => decrypted.out = Ok(plaintext)

C1_Witness ==
  /\ DecryptedWithSamePassword
  /\ WellFormed(plaintext)
  /\ Len(Utf8Encode(plaintext)) > Len(plaintext)
  /\ decrypted.out = Ok(plaintext)

C3_TamperDetected ==
  (decrypted.done /\ decrypted.flipped)
    => decrypted.out = Err(ERR_DECRYPTION_FAILED)

\* a bit of the ciphertext itself was flipped and decrypt refused
C3_Witness ==
  /\ decrypted.done /\ decrypted.flipped
  /\ decrypted.byte > HEADER_LENGTH
  /\ decrypted.text # envelopes[decrypted.of].val
  /\ decrypted.out = Err(ERR_DECRYPTION_FAILED)

TwoEnvelopes == Len(envelopes) = 2 /\ envelopes[1].ok /\ envelopes[2].ok

\* C4 as stated: two calls of encrypt with the same p and s return two
\* different envelopes, and both decrypt to p under s.
C4_TwoCallsEveryString ==
  TwoEnvelopes =>
    /\ envelopes[1].val # envelopes[2].val
    /\ DecryptedWithSamePassword => decrypted.out = Ok(plaintext)

\* C4 amended: two calls of encrypt with the same p and s return two
\* different envelopes, and both decrypt under s to p when p holds no
\* unpaired surrogate.
C4_TwoCallsWellFormed ==
  TwoEnvelopes =>
    /\ envelopes[1].val # envelopes[2].val
    /\ (DecryptedWithSamePassword /\ WellFormed(plaintext))
         => decrypted.out = Ok(plaintext)

\* the envelope of the second call, different from the first, decrypted to p
C4_Witness ==
  /\ TwoEnvelopes
  /\ envelopes[1].val # envelopes[2].val
  /\ DecryptedWithSamePassword /\ decrypted.of = 2
  /\ decrypted.out = Ok(plaintext)

\* C18: encrypt fails with the invalid-input error and returns no envelope
\* whenever the plaintext is empty or the master password is empty.
C18_EmptyInputRejected ==
  (plaintext = <<>> \/ masterPassword = <<>>) =>
    \A k \in 1..Len(envelopes) :
      ~envelopes[k].ok /\ envelopes[k].err = ERR_ENCRYPT_REQUIRED

\* encrypt was called twice with a plaintext and an empty master password,
\* and failed twice without drawing random bytes
C18_Witness ==
  /\ plaintext # <<>> /\ masterPassword = <<>>
  /\ Len(envelopes) = 2
  /\ ~envelopes[1].ok /\ envelopes[1].err = ERR_ENCRYPT_REQUIRED
  /\ ~envelopes[2].ok
  /\ rng = 0

\* the text does not begin with the 13 characters 'encrypted:v1:'
LacksPrefix(text) ==
  \/ Len(text) < Len(ENCRYPTED_PREFIX)
  \/ \E i \in 1..Len(ENCRYPTED_PREFIX) : text[i] # ENCRYPTED_PREFIX[i]

\* C19 as stated: decrypt fails with the not-encrypted error for every input
\* string that lacks the exact prefix 'encrypted:v1:', and isEncrypted treats
\* such a string as plaintext.
C19_NotEncryptedForEveryInput ==
  (decryptedText.done /\ LacksPrefix(decryptedText.text)) =>
    /\ ~isEncrypted(decryptedText.text)
    /\ ~decryptedText.out.ok
    /\ decryptedText.out.err = ERR_NOT_ENCRYPTED

\* C19 amended: for every input string that lacks the exact prefix
\* 'encrypted:v1:', isEncrypted answers false and decrypt fails before any
\* key derivation: with the required-arguments error when the string or the
\* master password is empty, and with the not-encrypted error otherwise.
C19_RejectedBeforeDecryption ==
  (decryptedText.done /\ LacksPrefix(decryptedText.text)) =>
    /\ ~isEncrypted(decryptedText.text)
    /\ ~decryptedText.out.ok
    /\ decryptedText.out.err =
         IF decryptedText.text = <<>> \/ decryptedText.pw = <<>>
         THEN ERR_DECRYPT_REQUIRED
         ELSE ERR_NOT_ENCRYPTED

\* 'Encrypted:v1:AAAA', which differs from the prefix in the case of one
\* letter, was refused as not encrypted under a non-empty master password
C19_Witness ==
  /\ decryptedText.done
  /\ decryptedText.text = T_capital /\ decryptedText.pw # <<>>
  /\ LacksPrefix(decryptedText.text)
  /\ decryptedText.out = Err(ERR_NOT_ENCRYPTED)

\* the text begins with 'encrypted:v' and a version tag that is not '1:'
OtherVersion(text) ==
  /\ Len(text) >= Len(ENCRYPTED_PREFIX)
  /\ SubSeq(text, 1, 11) = SubSeq(ENCRYPTED_PREFIX, 1, 11)
  /\ SubSeq(text, 12, 13) # SubSeq(ENCRYPTED_PREFIX, 12, 13)

\* C20: decrypt rejects an envelope with a version tag other than v1 (such
\* as 'encrypted:v2:...') with an error of its own, which is not the
\* not-encrypted error.
C20_UnsupportedVersionRejected ==
  (decryptedText.done /\ OtherVersion(decryptedText.text) /\ decryptedText.pw # <<>>) =>
    /\ ~decryptedText.out.ok
    /\ decryptedText.out.err # ERR_NOT_ENCRYPTED

\* ------------------------------------------------------------------------
\* Properties of the tree codec (checked under SpecTree)
\* ------------------------------------------------------------------------
\* ^encrypted:v1:[A-Za-z0-9+/=]+$
MatchesEnvelopePattern(s) ==
  /\ startsWith(s, ENCRYPTED_PREFIX)
  /\ Len(s) > Len(ENCRYPTED_PREFIX)
  /\ \A i \in (Len(ENCRYPTED_PREFIX) + 1)..Len(s) :
       \/ s[i] \in {43, 47, 61}
       \/ (s[i] >= 48 /\ s[i] <= 57)
       \/ (s[i] >= 65 /\ s[i] <= 90)
       \/ (s[i] >= 97 /\ s[i] <= 122)

\* C9: encryptSensitiveFields applied to
\* {credentials: {username: 'u', password: 'p'}, name: 'n'} returns a document
\* in which credentials.username and credentials.password are envelopes and
\* name is still 'n'.
C9_PathTargeting ==
  (document = DOC_CREDENTIALS /\ masterPassword # <<>> /\ encryptedDoc.done)
    => /\ encryptedDoc.ok
       /\ isEncryptedValue(Prop(Prop(encryptedDoc.val, K_credentials), K_username))
       /\ isEncryptedValue(Prop(Prop(encryptedDoc.val, K_credentials), K_password))
       /\ Prop(encryptedDoc.val, K_name) = Str(S_n)

\* C10: encryptSensitiveFields applied to {tokenApi: 'abc123'} with master
\* password 'correct-horse-battery' returns a document whose tokenApi is
\* 'encrypted:v1:' followed by base64 text; decrypting that value with the
\* same password returns 'abc123', and with 'wrong-secret' fails with the
\* authentication-failure error.
C10_EndToEnd ==
  (document = DOC_TOKEN /\ masterPassword = PW_CORRECT /\ encryptedDoc.done)
    => /\ encryptedDoc.ok
       /\ Prop(encryptedDoc.val, K_tokenApi).t = "string"
       /\ MatchesEnvelopePattern(Prop(encryptedDoc.val, K_tokenApi).s)
       /\ (leafDecrypted.done /\ leafDecrypted.path = K_tokenApi) =>
            /\ leafDecrypted.pw = PW_CORRECT => leafDecrypted.out = Ok(S_abc123)
            /\ leafDecrypted.pw = PW_WRONG
                 => leafDecrypted.out = Err(ERR_DECRYPTION_FAILED)

\* C11: whenever encryptSensitiveFields(d, s) returns a document, a second
\* call encryptSensitiveFields on that document with the same master password
\* returns a document equal to it: the second pass changes no leaf.
C11_Idempotent ==
  encryptedAgain.done
    => /\ encryptedAgain.ok
       /\ encryptedAgain.val = encryptedDoc.val

\* the first pass encrypted leaves of the nested document and the second
\* pass returned the same envelopes
C11_Witness ==
  /\ encryptedAgain.done /\ encryptedAgain.ok
  /\ document = DOC_BANKS
  /\ masterPassword = PW_CORRECT
  /\ encryptedDoc.val # document
  /\ hasEncryptedValues(encryptedDoc.val)
  /\ encryptedAgain.val = encryptedDoc.val

\* the path of a child as C12 states it: [index] appended for a sequence
\* child, .key appended for a mapping child
StatedChildPath(obj, i, path) ==
  IF obj.t = "array" THEN PathIndex(path, i - 1) ELSE path \o <<46>> \o KeyAt(obj, i)

\* the leaf rule of C12 between a node of the document and the node returned
\* for it: a string leaf that carries no prefix, is not blank and has a
\* sensitive path is replaced by an envelope, every other leaf is returned
\* unchanged, and arrays and objects keep their children
RECURSIVE LeafRule(_, _, _)
LeafRule(in, out, path) ==
  IF in.t \in {"array", "object"} THEN
    /\ out.t = in.t
    /\ Len(out.v) = Len(in.v)
    /\ \A i \in 1..Len(in.v) :
         /\ KeyAt(out, i) = KeyAt(in, i)
         /\ LeafRule(ValueAt(in, i), ValueAt(out, i), StatedChildPath(in, i, path))
  ELSE IF in.t = "string" /\ ~isEncrypted(in.s) /\ ~IsBlank(in.s) /\ isSensitive(path)
    THEN out.t = "string" /\ isEncrypted(out.s) /\ out # in
  ELSE out = in

\* C12: in the document encryptSensitiveFields returns, a leaf is replaced by
\* an envelope if and only if it is a string that carries no encrypted
\* prefix, is non-empty after trimming and has a path that ends with
\* .credentials, contains .credentials. or ends with .password, .tokenApi,
\* .token, .secret or .apiKey (the path appends [index] for a sequence child
\* and .key for a mapping child); every other leaf is returned unchanged.
C12_LeafRule ==
  (encryptedDoc.done /\ encryptedDoc.ok) => LeafRule(document, encryptedDoc.val, <<>>)

\* the rule of C13 between a node given to decryptObject and the node
\* returned for it: the same shape, a string leaf that carries the prefix
\* replaced by its decryption under pw, every other leaf unchanged
RECURSIVE DecryptRule(_, _, _)
DecryptRule(in, out, pw) ==
  IF in.t \in {"array", "object"} THEN
    /\ out.t = in.t
    /\ Len(out.v) = Len(in.v)
    /\ \A i \in 1..Len(in.v) :
         /\ KeyAt(out, i) = KeyAt(in, i)
         /\ DecryptRule(ValueAt(in, i), ValueAt(out, i), pw)
  ELSE IF in.t = "string" /\ isEncrypted(in.s)
    THEN decrypt(in.s, pw).ok /\ out = Str(decrypt(in.s, pw).val)
  ELSE out = in

\* C13: the tree decryptObject returns has the shape of its input; every
\* string leaf that carries the encrypted prefix is replaced by its
\* decryption under the master password and every other leaf is unchanged.
C13_DecryptTree ==
  (decryptedDoc.done /\ decryptedDoc.out.ok)
    => DecryptRule(decryptedDoc.obj, decryptedDoc.out.val, decryptedDoc.pw)

\* the paths, in document order, of the string leaves of `in` in whose place
\* `out` (the document returned for `in`) holds an envelope that `in` did not
RECURSIVE ReplacedPaths(_, _, _)
RECURSIVE ReplacedFrom(_, _, _, _)
ReplacedFrom(in, out, i, path) ==
  IF i > Len(in.v) THEN <<>>
  ELSE ReplacedPaths(ValueAt(in, i), Member(out, KeyAt(in, i)), ChildPath(in, i, path))
         \o ReplacedFrom(in, out, i + 1, path)
ReplacedPaths(in, out, path) ==
  IF in.t \in {"array", "object"} THEN ReplacedFrom(in, out, 1, path)
  ELSE IF in.t = "string" /\ ~isEncrypted(in.s) /\ out.t = "string" /\ isEncrypted(out.s)
    THEN <<path>>
  ELSE <<>>

\* C14: the paths listSensitiveFields returns for a document are exactly the
\* paths of the leaves encryptSensitiveFields replaces by envelopes in that
\* document, in depth-first document order.
C14_PreviewConsistency ==
  (listed.done /\ encryptedDoc.done /\ encryptedDoc.ok)
    => listed.val = ReplacedPaths(document, encryptedDoc.val, <<>>)

\* the module is loaded: config.defaults(require('../config/default.json'))
InitLoader ==
  /\ env \in ENVIRONMENTS
  /\ defaults \in DEFAULT_JSONS
  /\ file \in FILES
  /\ config = ProviderAdd(<<>>, "defaults", TRUE, Literal(defaults))
  /\ pc = "loadConfig"
  /\ error = NoError
  /\ imports = 0
  /\ fatal = 0
  /\ snapshot = Undefined
  /\ cronJob = Undefined
  /\ exitCode = 0
  /\ masterPassword = <<>>
  /\ rng = 0
  /\ IdleCipher
  /\ IdleTree
  /\ IdleTool
  /\ IdleScraper

\* loadConfig, the store chain: remove('defaults'), env, file, defaults
LoadStores ==
  /\ pc = "loadConfig"
  /\ \E withEnv \in {ProviderAdd(ProviderRemove(config, "defaults"), "env", TRUE,
                                 LoadEnv(env, 1, Obj(<<>>)))},
        store \in {IF file.kind = "missing" THEN Obj(<<>>) ELSE file.doc} :
         IF file.kind = "unparsable"
         THEN /\ config' = withEnv
              /\ error' = Thrown(pc, ERR_PARSE, <<>>)
              /\ pc' = "catch"
         ELSE /\ config' = ProviderAdd(ProviderAdd(withEnv, "file", FALSE, store),
                                       "defaults", TRUE, Literal(defaults))
              /\ error' = error
              /\ pc' = "envOverrides"
  /\ UNCHANGED <<env, defaults, file, snapshot, imports, fatal, cronJob, exitCode, masterPassword, rng,
                 cipherVars, treeVars, toolVars,
                 scrapeVars>>

\* loadConfig: config.overrides(envOverrides) when it has keys
EnvOverrides ==
  /\ pc = "envOverrides"
  /\ \E o \in {envOverrides(env, config)} :
         config' = IF o.v # <<>> THEN ProviderAdd(config, "overrides", TRUE, Literal(o))
                   ELSE config
  /\ pc' = "required"
  /\ UNCHANGED <<env, defaults, file, snapshot, error, imports, fatal, cronJob, exitCode, masterPassword, rng,
                 cipherVars, treeVars, toolVars,
                 scrapeVars>>

\* loadConfig: config.required([...])
Required ==
  /\ pc = "required"
  /\ \E missing \in {Missing(config, REQUIRED_KEYS)} :
         IF missing # <<>>
         THEN error' = Thrown(pc, ERR_MISSING_REQUIRED, missing) /\ pc' = "catch"
         ELSE error' = error /\ pc' = "credentials"
  /\ UNCHANGED <<env, defaults, file, snapshot, config, imports, fatal, cronJob, exitCode, masterPassword, rng,
                 cipherVars, treeVars, toolVars,
                 scrapeVars>>

\* loadConfig going on to the detection without the credential overrides
ApplyCredentialEnvOverrides_notApplied ==
  /\ pc = "credentials"
  /\ pc' = "detect"
  /\ UNCHANGED <<env, defaults, file, snapshot, config, error, imports, fatal, cronJob, exitCode, masterPassword,
                 rng, cipherVars, treeVars, toolVars,
                 scrapeVars>>

\* loadConfig: applyCredentialEnvOverrides()
ApplyCredentialEnvOverrides ==
  /\ pc = "credentials"
  /\ \E r \in {applyCredentialEnvOverrides(env, config)} :
         /\ config' = r.stores
         /\ IF r.ok THEN error' = error /\ pc' = "detect"
            ELSE error' = Thrown(pc, ERR_TYPE, <<>>) /\ pc' = "catch"
  /\ UNCHANGED <<env, defaults, file, snapshot, imports, fatal, cronJob, exitCode, masterPassword, rng,
                 cipherVars, treeVars, toolVars,
                 scrapeVars>>

\* loadConfig: needsDecryption and the read of MASTER_PASSWORD
DetectEncryption ==
  /\ pc = "detect"
  /\ IF ~needsDecryption(config)
     THEN error' = error /\ pc' = "loaded"
     ELSE IF ~Truthy(Getenv(env, "MASTER_PASSWORD"))
          THEN error' = Thrown(pc, ERR_MASTER_REQUIRED, <<>>) /\ pc' = "catch"
          ELSE error' = error /\ pc' = "decryptBanks"
  /\ UNCHANGED <<env, defaults, file, snapshot, config, imports, fatal, cronJob, exitCode, masterPassword, rng,
                 cipherVars, treeVars, toolVars,
                 scrapeVars>>

\* loadConfig: await decryptBanksConfig(masterPassword)
DecryptBanksConfig ==
  /\ pc = "decryptBanks"
  /\ \E r \in {decryptBanksConfig(config, Getenv(env, "MASTER_PASSWORD").s)} :
         IF r.ok
         THEN config' = r.stores /\ error' = error /\ pc' = "decryptFirefly"
         ELSE /\ config' = config
              /\ \E e \in r.errs : error' = Thrown(pc, ERR_FAILED_TO_DECRYPT, <<e>>)
              /\ pc' = "catch"
  /\ UNCHANGED <<env, defaults, file, snapshot, imports, fatal, cronJob, exitCode, masterPassword, rng,
                 cipherVars, treeVars, toolVars,
                 scrapeVars>>

\* loadConfig: await decryptFireflyConfig(masterPassword)
DecryptFireflyConfig ==
  /\ pc = "decryptFirefly"
  /\ \E r \in {decryptFireflyConfig(config, Getenv(env, "MASTER_PASSWORD").s)} :
         IF r.ok
         THEN config' = r.stores /\ error' = error /\ pc' = "loaded"
         ELSE /\ config' = config
              /\ \E e \in r.errs : error' = Thrown(pc, ERR_FAILED_TO_DECRYPT, <<e>>)
              /\ pc' = "catch"
  /\ UNCHANGED <<env, defaults, file, snapshot, imports, fatal, cronJob, exitCode, masterPassword, rng,
                 cipherVars, treeVars, toolVars,
                 scrapeVars>>

\* the keys of the snapshot
K_index == <<105, 110, 100, 101, 120>>
K_configFile == <<99, 111, 110, 102, 105, 103, 70, 105, 108, 101>>
K_scraperStartDate == <<115, 99, 114, 97, 112, 101, 114, 83, 116, 97, 114, 116, 68, 97, 116, 101>>
K_scraperTimeout == <<115, 99, 114, 97, 112, 101, 114, 84, 105, 109, 101, 111, 117, 116>>
S_dotConfigYaml == <<46, 47, 99, 111, 110, 102, 105, 103, 46, 121, 97, 109, 108>>
\* value ?? null
OrNull(v) == IF v.t \in {"undefined", "null"} THEN Null ELSE v
\* what logConfigSnapshot keeps of a credit card, of a bank
CardSnapshot(cc, j) ==
  Obj(<< <<K_index, Num(j)>>, <<K_type, Prop(cc, K_type)>>,
         <<K_startDate, OrNull(Prop(cc, K_startDate))>>,
         <<K_timeout, OrNull(Prop(cc, K_timeout))>> >>)
CardSnapshots(creditCards) ==
  Arr([j \in 1..Len(creditCards.v) |-> CardSnapshot(ValueAt(creditCards, j), j - 1)])
BankSnapshot_whole(b, i) ==
  Obj(b.v \o << <<K_index, Num(i)>> >>)
BankSnapshot(b, i) ==
  Obj(<< <<K_index, Num(i)>>, <<K_type, Prop(b, K_type)>>,
         <<K_startDate, OrNull(Prop(b, K_startDate))>>,
         <<K_timeout, OrNull(Prop(b, K_timeout))>>,
         <<K_creditCards, CardSnapshots(OrElse(Prop(b, K_creditCards), Arr(<<>>)))>> >>)
Snapshot(configFile, scraper, banks) ==
  Obj(<< <<K_configFile, configFile>>,
         <<K_scraperStartDate, OrNull(Prop(scraper, K_startDate))>>,
         <<K_scraperTimeout, OrNull(Prop(scraper, K_timeout))>>,
         <<K_banks, Arr([i \in 1..Len(banks.v) |->
                           BankSnapshot(ValueAt(banks, i), i - 1)])>> >>)
\* the object logConfigSnapshot hands to logger().info
logConfigSnapshot(stores, e) ==
  Snapshot(OrElse(Getenv(e, "CONFIG_FILE"), Str(S_dotConfigYaml)),
           OrElse(ProviderGet(stores, <<K_scraper>>), Obj(<<>>)),
           OrElse(ProviderGet(stores, <<K_banks>>), Arr(<<>>)))

\* init() after loadConfig returned: the logger, the snapshot, the client
InitRest ==
  /\ pc = "loaded"
  /\ snapshot' = logConfigSnapshot(config, env)
  /\ pc' = "run"
  /\ UNCHANGED <<env, defaults, file, config, error, imports, fatal, cronJob, exitCode, masterPassword,
                 rng, cipherVars, treeVars, toolVars,
                 scrapeVars>>

\* doImport throws and nothing catches it: the startup's catch takes over
Run_uncaught ==
  /\ pc = "run"
  /\ imports' = imports + 1
  /\ \E threw \in BOOLEAN :
       /\ fatal' = IF threw THEN fatal + 1 ELSE fatal
       /\ pc' = IF threw THEN "catch" ELSE "schedule"
  /\ UNCHANGED <<env, defaults, file, snapshot, config, error, cronJob, exitCode, masterPassword, rng,
                 cipherVars, treeVars, toolVars,
                 scrapeVars>>
\* await run(): doImport runs to its end or throws; run() catches what it
\* throws and logs 'Fatal error'
Run ==
  /\ pc = "run"
  /\ imports' = imports + 1
  /\ \E threw \in BOOLEAN : fatal' = IF threw THEN fatal + 1 ELSE fatal
  /\ pc' = "schedule"
  /\ UNCHANGED <<env, defaults, file, snapshot, config, error, cronJob, exitCode, masterPassword, rng,
                 cipherVars, treeVars, toolVars,
                 scrapeVars>>

\* const cron = config.get('cron'); if (cron) schedule(cron, run)
Schedule ==
  /\ pc = "schedule"
  /\ \E cron \in {ProviderGet(config, <<K_cron>>)} :
         cronJob' = IF Truthy(cron) THEN cron ELSE cronJob
  /\ pc' = "idle"
  /\ UNCHANGED <<env, defaults, file, snapshot, config, error, imports, fatal, exitCode, masterPassword, rng,
                 cipherVars, treeVars, toolVars,
                 scrapeVars>>

\* the scheduled job fires: run()
CronRun ==
  /\ pc = "idle"
  /\ cronJob.t # "undefined"
  /\ imports < MaxRuns
  /\ imports' = imports + 1
  /\ \E threw \in BOOLEAN : fatal' = IF threw THEN fatal + 1 ELSE fatal
  /\ UNCHANGED <<env, defaults, file, snapshot, config, error, pc, cronJob, exitCode, masterPassword, rng,
                 cipherVars, treeVars, toolVars,
                 scrapeVars>>

\* the catch of the startup: report, process.exitCode = 1
Catch_noExitCode ==
  /\ pc = "catch"
  /\ pc' = "exited"
  /\ UNCHANGED <<env, defaults, file, snapshot, config, error, imports, fatal, cronJob, exitCode, masterPassword,
                 rng, cipherVars, treeVars, toolVars,
                 scrapeVars>>
Catch ==
  /\ pc = "catch"
  /\ exitCode' = 1
  /\ pc' = "exited"
  /\ UNCHANGED <<env, defaults, file, snapshot, config, error, imports, fatal, cronJob, masterPassword, rng,
                 cipherVars, treeVars, toolVars,
                 scrapeVars>>

NextLoader ==
  \/ LoadStores \/ EnvOverrides \/ Required \/ ApplyCredentialEnvOverrides
  \/ DetectEncryption \/ DecryptBanksConfig \/ DecryptFireflyConfig
  \/ InitRest \/ Run \/ Schedule \/ CronRun \/ Catch

SpecLoader == InitLoader /\ [][NextLoader]_vars

\* ------------------------------------------------------------------------
\* The scraper: scrapAccounts, scrape and runActions
\* ------------------------------------------------------------------------
MaxUsers == 3

\* 'Leumi' is no key of CompanyTypes, whose keys are in lower case
S_Leumi == <<76, 101, 117, 109, 105>>
USER_TYPES == {S_leumi, S_isracard, S_Leumi}
\* CompanyTypes[user.type]
CompanyTypes(type) == IF type \in {S_leumi, S_isracard} THEN Str(type) ELSE Undefined

\* the accounts getFlatUsers hands over; only the type decides what follows
FLAT_USERS ==
  UNION {[1..n -> [type : USER_TYPES]] : n \in 0..MaxUsers}
\* config.get('scraper')
SCRAPER_CONFIGS ==
  {Undefined, Obj(<<>>),
   Obj(<< <<K_parallel, Bool(FALSE)>> >>), Obj(<< <<K_parallel, Bool(TRUE)>> >>)}

\* the errors scraper.scrape rejects with; reject() gives a falsy reason
E_name == <<69, 114, 114, 111, 114>>
E_timeoutName == <<84, 105, 109, 101, 111, 117, 116, 69, 114, 114, 111, 114>>
M_navigation == <<78, 97, 118, 105, 103, 97, 116, 105, 111, 110, 32, 84, 105, 109, 101, 111, 117, 116, 32, 69, 120, 99, 101, 101, 100, 101, 100>>
M_closed == <<84, 97, 114, 103, 101, 116, 32, 99, 108, 111, 115, 101, 100>>
M_unknownCompany == <<117, 110, 107, 110, 111, 119, 110, 32, 99, 111, 109, 112, 97, 110, 121, 32, 105, 100, 32, 117, 110, 100, 101, 102, 105, 110, 101, 100>>
M_readOfUndefined == <<67, 97, 110, 110, 111, 116, 32, 114, 101, 97, 100, 32, 112, 114, 111, 112, 101, 114, 116, 105, 101, 115, 32, 111, 102, 32, 117, 110, 100, 101, 102, 105, 110, 101, 100>>
S_timeouterror == <<116, 105, 109, 101, 111, 117, 116, 101, 114, 114, 111, 114>>
S_timeout == <<116, 105, 109, 101, 111, 117, 116>>
S_navigationTimeout == <<110, 97, 118, 105, 103, 97, 116, 105, 111, 110, 32, 116, 105, 109, 101, 111, 117, 116>>
ScrapeError(name, message) == [falsy |-> FALSE, name |-> name, message |-> message]
NoReason == [falsy |-> TRUE, name |-> <<>>, message |-> <<>>]
SCRAPE_ERRORS ==
  {ScrapeError(E_name, M_navigation), ScrapeError(E_timeoutName, M_closed),
   ScrapeError(E_name, M_closed), NoReason}

\* what a scrape yields: accounts holds the number of the account scraped
ScrapeResult(success, errorType, errorMessage, accounts) ==
  [success |-> success, errorType |-> errorType,
   errorMessage |-> errorMessage, accounts |-> accounts]
NoResult == ScrapeResult(FALSE, "", <<>>, 0)
\* what scraper.scrape of the library does for account i
NotScraped == [kind |-> "none", result |-> NoResult, error |-> NoReason]
Resolves(result) == [kind |-> "resolve", result |-> result, error |-> NoReason]
Rejects(reason) == [kind |-> "reject", result |-> NoResult, error |-> reason]
OUTCOMES(i) ==
  {Resolves(ScrapeResult(TRUE, "", <<>>, i)),
   Resolves(ScrapeResult(FALSE, "INVALID_PASSWORD", <<>>, 0))}
    \cup {Rejects(e) : e \in SCRAPE_ERRORS}

isTimeoutError(err) ==
  IF err.falsy THEN FALSE
  ELSE \/ toLowerCase(err.name) = S_timeouterror
       \/ Contains(toLowerCase(err.message), S_timeout)
       \/ Contains(toLowerCase(err.message), S_navigationTimeout)

\* the promise of one call of scrape, and when it settled
NotCalled == [state |-> "none", val |-> NoResult, reason |-> NoReason, at |-> 0]
Pending == [state |-> "pending", val |-> NoResult, reason |-> NoReason, at |-> 0]
Fulfilled(val, at) ==
  [state |-> "fulfilled", val |-> val, reason |-> NoReason, at |-> at]
Rejected(reason, at) ==
  [state |-> "rejected", val |-> NoResult, reason |-> reason, at |-> at]

\* scrape up to the await: createScraper throws for a company it does not
\* know, outside the try
scrape(user) ==
  IF CompanyTypes(user.type).t = "undefined"
    THEN Rejected(ScrapeError(E_name, M_unknownCompany), 0)
    ELSE Pending
\* scrape from the await on: the result is returned; an error is caught and
\* turned into a failure, and reading error.message of a falsy reason throws
scrapeSettled(outcome, at) ==
  IF outcome.kind = "resolve" THEN Fulfilled(outcome.result, at)
  ELSE IF outcome.error.falsy
    THEN Rejected(ScrapeError(E_name, M_readOfUndefined), at)
    ELSE Fulfilled(ScrapeResult(FALSE,
                                IF isTimeoutError(outcome.error)
                                  THEN "TIMEOUT" ELSE "GENERAL_ERROR",
                                outcome.error.message, 0), at)

\* runActions: the actions it calls before it returns
runActions_allAtOnce(n, parallel) == [i \in 1..n |-> i]
runActions(n, parallel) ==
  IF Truthy(parallel) THEN [i \in 1..n |-> i]
  ELSE IF n > 0 THEN <<1>> ELSE <<>>

Parallel == MemoryGet(scraperConfig, <<K_parallel>>)
SettledCount(promises) ==
  Cardinality({i \in 1..Len(promises) : promises[i].state \in {"fulfilled", "rejected"}})
\* Promise.all over the promises of the scrapes
PromiseAllState(promises) ==
  IF \E i \in 1..Len(promises) : promises[i].state = "rejected" THEN "rejected"
  ELSE IF \A i \in 1..Len(promises) : promises[i].state = "fulfilled" THEN "resolved"
  ELSE "pending"
PromiseAllValue(promises) ==
  IF PromiseAllState(promises) = "resolved"
    THEN [i \in 1..Len(promises) |-> promises[i].val]
    ELSE <<>>
Called(promises, calls) ==
  [i \in 1..Len(promises) |->
     IF \E k \in 1..Len(calls) : calls[k] = i THEN scrape(flatUsers[i]) ELSE promises[i]]

InitScraper ==
  /\ flatUsers \in FLAT_USERS
  /\ scraperConfig \in SCRAPER_CONFIGS
  /\ scrapPc = "called"
  /\ inFlight = {}
  /\ started = <<>>
  /\ scraped = [i \in 1..Len(flatUsers) |-> NotScraped]
  /\ settled = [i \in 1..Len(flatUsers) |-> NotCalled]
  /\ collected = <<>>
  /\ masterPassword = <<>>
  /\ rng = 0
  /\ IdleCipher
  /\ IdleTree
  /\ IdleLoader
  /\ IdleTool

\* scrapAccounts up to the promise it returns
ScrapAccounts ==
  /\ scrapPc = "called"
  /\ IF scraperConfig.t = "undefined" THEN
       \* scraperConfig.options, or scraperConfig.parallel for no accounts
       /\ scrapPc' = "rejected"
       /\ UNCHANGED <<inFlight, started, settled, collected>>
     ELSE
       /\ started' = runActions(Len(flatUsers), Parallel)
       /\ settled' = Called(settled, started')
       /\ inFlight' = {i \in 1..Len(flatUsers) : settled'[i].state = "pending"}
       /\ scrapPc' = IF Len(flatUsers) = 0 THEN "resolved"
                     ELSE IF \E i \in 1..Len(flatUsers) : settled'[i].state = "rejected"
                       THEN "rejected" ELSE "pending"
       /\ collected' = <<>>
  /\ UNCHANGED <<flatUsers, scraperConfig, scraped, masterPassword, rng,
                 cipherVars, treeVars, loaderVars, toolVars>>

\* scraper.scrape of one account settles while the others are in flight
ParallelScrapeSettles ==
  /\ Truthy(Parallel)
  /\ \E i \in inFlight :
       \E outcome \in OUTCOMES(i) :
         /\ scraped' = [scraped EXCEPT ![i] = outcome]
         /\ settled' = [settled EXCEPT
                          ![i] = scrapeSettled(outcome, SettledCount(settled) + 1)]
         /\ inFlight' = inFlight \ {i}
  /\ scrapPc' = PromiseAllState(settled')
  /\ collected' = PromiseAllValue(settled')
  /\ UNCHANGED <<flatUsers, scraperConfig, started, masterPassword, rng,
                 cipherVars, treeVars, loaderVars, toolVars>>

\* one link of the chain of runActions: [...x, await a()], then the next action
Chained(promises, i) ==
  IF promises[i].state = "rejected" THEN <<>>
  ELSE IF Len(started) < Len(flatUsers) THEN <<Len(started) + 1>> ELSE <<>>
SequentialScrapeSettles ==
  /\ ~Truthy(Parallel)
  /\ \E i \in inFlight :
       \E outcome \in OUTCOMES(i) :
         /\ scraped' = [scraped EXCEPT ![i] = outcome]
         /\ \E now \in {[settled EXCEPT
                           ![i] = scrapeSettled(outcome, SettledCount(settled) + 1)]} :
              /\ started' = started \o Chained(now, i)
              /\ settled' = Called(now, Chained(now, i))
              /\ collected' = IF now[i].state = "fulfilled"
                                THEN Append(collected, now[i].val) ELSE collected
  /\ inFlight' = {i \in 1..Len(flatUsers) : settled'[i].state = "pending"}
  /\ scrapPc' = IF scrapPc # "pending" THEN scrapPc
                ELSE IF \E i \in 1..Len(flatUsers) : settled'[i].state = "rejected"
                  THEN "rejected"
                ELSE IF inFlight' = {} THEN "resolved" ELSE "pending"
  /\ UNCHANGED <<flatUsers, scraperConfig, masterPassword, rng,
                 cipherVars, treeVars, loaderVars, toolVars>>

NextScraper == ScrapAccounts \/ ParallelScrapeSettles \/ SequentialScrapeSettles

SpecScraper == InitScraper /\ [][NextScraper]_vars

\* ------------------------------------------------------------------------
\* Properties of the concurrent traversal (checked under SpecJoin)
\* ------------------------------------------------------------------------
\* the value the call resolved with
Resolution == JoinResult(join.obj, join.results, join.settled)
\* the result has the keys of the input, each once and bound to the result
\* of its own child; an array has them in the order of the input
SameShape(in, out, results) ==
  /\ out.t = in.t
  /\ Len(out.v) = Len(in.v)
  /\ \A i \in 1..Len(in.v) :
       \E k \in 1..Len(out.v) :
         /\ KeyAt(out, k) = KeyAt(in, i)
         /\ ValueAt(out, k) = results[i].val
         /\ in.t = "array" => k = i

\* C24: in decryptObject and encryptSensitiveFields the children of a
\* mapping or sequence are processed concurrently; for every order in which
\* they settle, the result has exactly the keys of the input, each bound to
\* its own processed child, and a sequence keeps its length and order.
C24_ShapeInEveryOrder ==
  join.phase = "resolved" => SameShape(join.obj, Resolution, join.results)

\* ------------------------------------------------------------------------
\* Properties of the scraper (checked under SpecScraper)
\* ------------------------------------------------------------------------
\* the promise of scrape for account i has settled
HasSettled(i) == settled[i].state \in {"fulfilled", "rejected"}
\* what scrape makes of the outcome scraper.scrape had for account i
OwnResult(i) == scrapeSettled(scraped[i], 0).val

\* C25: when scrapAccounts resolves, its list has one result per entry of
\* flatUsers and result i is the outcome of the scrape of flatUsers[i], in
\* parallel mode for every completion order and in sequential mode; in
\* sequential mode (scraper.parallel falsy) the scrapes are started in the
\* order of flatUsers, account i+1 only after the scrape of account i has
\* settled, so that at most one scrape is in flight.
C25_OneResultPerAccount ==
  /\ scrapPc = "resolved" =>
       /\ Len(collected) = Len(flatUsers)
       /\ \A i \in 1..Len(flatUsers) :
            /\ scraped[i].kind # "none"
            /\ collected[i] = OwnResult(i)
  /\ (scraperConfig.t # "undefined" /\ ~Truthy(Parallel)) =>
       /\ Cardinality(inFlight) <= 1
       /\ \A k \in 1..Len(started) :
            /\ started[k] = k
            /\ k > 1 => HasSettled(k - 1)
\* three accounts scraped in parallel settled in the reverse of their order,
\* one of them with a failure, and scrapAccounts resolved
C25_Witness ==
  /\ scrapPc = "resolved"
  /\ Truthy(Parallel)
  /\ Len(flatUsers) = MaxUsers
  /\ settled[3].at < settled[2].at
  /\ settled[2].at < settled[1].at
  /\ collected[1].success
  /\ ~collected[2].success
  /\ collected[3].accounts = 3

\* C26: a failure while scraping one account never makes scrapAccounts fail:
\* the promise of scrapAccounts is not rejected, the account whose scrape
\* failed yields {success: false, errorType: TIMEOUT or GENERAL_ERROR,
\* errorMessage}, and every other account is scraped and yields its own result.
C26_FailureIsolated ==
  scraperConfig.t # "undefined" =>
    /\ scrapPc # "rejected"
    /\ scrapPc = "resolved" =>
         \A i \in 1..Len(flatUsers) :
           /\ scraped[i].kind # "none"
           /\ collected[i] = OwnResult(i)
           /\ scraped[i].kind = "reject" =>
                /\ ~collected[i].success
                /\ collected[i].errorType \in {"TIMEOUT", "GENERAL_ERROR"}
                /\ collected[i].errorMessage = scraped[i].error.message

\* ------------------------------------------------------------------------
\* Properties of the startup (checked under SpecLoader)
\* ------------------------------------------------------------------------
\* loadConfig returned; loadConfig threw; one of the two
Loaded == pc \in {"loaded", "run", "schedule", "idle"}
LoadConfigFailed ==
  /\ error.thrown
  /\ error.at \in {"loadConfig", "required", "credentials", "detect", "decryptBanks",
                   "decryptFirefly"}
LoadEnded == Loaded \/ LoadConfigFailed
\* the document was read and the required keys were found
RequiredPresent ==
  /\ file.kind = "document"
  /\ ~(error.thrown /\ error.at \in {"loadConfig", "required", "credentials"})
MasterPassword == Getenv(env, "MASTER_PASSWORD")
\* config.get(path) on the configuration as it is now
Resolved(path) == ProviderGet(config, path)

\* the credential leaves that have a variable, with the value of the variable
BankPath(i, k) == <<K_banks, ToDecimal(i), K_credentials, BANK_FIELDS[k][2]>>
CardPath(i, j, k) ==
  <<K_banks, ToDecimal(i), K_creditCards, ToDecimal(j), K_credentials, CC_FIELDS[k][2]>>
CREDENTIAL_LEAVES ==
  {[path |-> BankPath(i, k), variable |-> BankEnv(env, i, BANK_FIELDS[k][1])] :
     i \in {0, 1}, k \in 1..Len(BANK_FIELDS)}
    \cup {[path |-> CardPath(0, 0, k), variable |-> CcEnv(env, 0, 0, CC_FIELDS[k][1])] :
            k \in 1..Len(CC_FIELDS)}
\* the document's value at a path
InDocument(path) == MemoryGet(file.doc, path)
\* some string leaf under banks, or firefly.tokenApi, carries the prefix
EncryptedAfterOverrides ==
  \/ \E leaf \in StringLeaves(Resolved(<<K_banks>>), <<>>) : isEncrypted(leaf[2])
  \/ isEncryptedValue(Resolved(<<K_firefly, K_tokenApi>>))

\* C5 as stated: a document with zero encrypted leaves resolves successfully
\* when MASTER_PASSWORD is not set, and a document with at least one
\* encrypted leaf, resolved with MASTER_PASSWORD unset or empty, fails with
\* the master-secret-required error.
C5_GatingOnDocument ==
  (LoadEnded /\ RequiredPresent) =>
    /\ (~hasEncryptedValues(file.doc) /\ MasterPassword.t = "undefined") => Loaded
    /\ (hasEncryptedValues(file.doc) /\ ~Truthy(MasterPassword))
         => (LoadConfigFailed /\ error.message = ERR_MASTER_REQUIRED)

\* C5, amended: the gate is decided on the configuration after the
\* environment overrides, over banks and firefly.tokenApi only: with the
\* required keys present and MASTER_PASSWORD unset or empty, loadConfig fails
\* with the master-secret-required error exactly when a string leaf under
\* banks, or firefly.tokenApi, carries the encrypted prefix after the
\* overrides, and returns successfully otherwise.
C5_GatingAfterOverrides ==
  (LoadEnded /\ RequiredPresent /\ ~Truthy(MasterPassword)) =>
    IF EncryptedAfterOverrides
    THEN LoadConfigFailed /\ error.message = ERR_MASTER_REQUIRED
    ELSE Loaded

\* a document without encrypted leaves is refused for an envelope that a
\* variable supplied
C5_Witness ==
  /\ RequiredPresent /\ ~Truthy(MasterPassword)
  /\ ~hasEncryptedValues(file.doc)
  /\ LoadConfigFailed /\ error.message = ERR_MASTER_REQUIRED

\* C6 as stated: when the document holds a value at a credential leaf of a
\* bank or of a credit card and the variable of that leaf is set non-empty,
\* the resolved configuration holds the value of the variable at that leaf.
C6_EnvironmentValueResolved ==
  Loaded =>
    \A leaf \in CREDENTIAL_LEAVES :
      (file.kind = "document" /\ InDocument(leaf.path).t # "undefined"
         /\ Truthy(leaf.variable))
        => Resolved(leaf.path) = leaf.variable

\* C6, amended: the resolved configuration holds at that leaf the value of
\* the variable, or the plaintext of that value under MASTER_PASSWORD when
\* the value of the variable is itself an envelope; it is the document's
\* value only when the two are equal.
C6_EnvironmentValueOrItsPlaintext ==
  Loaded =>
    \A leaf \in CREDENTIAL_LEAVES :
      (file.kind = "document" /\ InDocument(leaf.path).t # "undefined"
         /\ Truthy(leaf.variable))
        => Resolved(leaf.path) =
             IF isEncryptedValue(leaf.variable)
             THEN Str(decrypt(leaf.variable.s, MasterPassword.s).val)
             ELSE leaf.variable

\* the password of bank 0 is an envelope in the document, the variable of
\* the leaf is set, and the resolved leaf is the value of the variable
C6_Witness ==
  /\ Loaded
  /\ file.kind = "document"
  /\ isEncryptedValue(InDocument(BankPath(0, 2)))
  /\ BankEnv(env, 0, "PASSWORD") = Str(S_envval)
  /\ Resolved(BankPath(0, 2)) = Str(S_envval)

\* what a credential leaf and firefly.tokenApi held when decryption started
BeforeDecryption(leaf) ==
  IF Truthy(leaf.variable) THEN leaf.variable ELSE InDocument(leaf.path)
TokenApiBeforeDecryption ==
  IF Getenv(env, "FIREFLY_TOKEN_API").t # "undefined"
  THEN Getenv(env, "FIREFLY_TOKEN_API")
  ELSE InDocument(<<K_firefly, K_tokenApi>>)

\* C7: if an encrypted leaf fails to decrypt during loadConfig, loadConfig
\* fails and no leaf of banks or firefly.tokenApi has been replaced by its
\* plaintext in the configuration.
C7_NoPartialDecryption ==
  (LoadConfigFailed /\ error.message = ERR_FAILED_TO_DECRYPT) =>
    /\ \A leaf \in CREDENTIAL_LEAVES :
         isEncryptedValue(BeforeDecryption(leaf))
           => Resolved(leaf.path) = BeforeDecryption(leaf)
    /\ isEncryptedValue(TokenApiBeforeDecryption)
         => Resolved(<<K_firefly, K_tokenApi>>) = TokenApiBeforeDecryption

\* C8: when loadConfig fails, no import run is started, no cron job is
\* registered, and the process ends with exit code 1.
C8_FailsClosed ==
  LoadConfigFailed =>
    /\ imports = 0
    /\ cronJob.t = "undefined"
    /\ pc \in {"catch", "exited"}
    /\ pc = "exited" => exitCode = 1

\* the process has ended after a decryption failure of a document that
\* asks for a schedule
C8_Witness ==
  /\ pc = "exited"
  /\ LoadConfigFailed
  /\ exitCode = 1
  /\ Truthy(Resolved(<<K_cron>>))

\* the string leaves of the resolved configuration under banks and firefly
\* that carry the encrypted prefix
EncryptedResolvedLeaves ==
  {leaf \in StringLeaves(Resolved(<<K_banks>>), <<K_banks>>)
            \cup StringLeaves(Resolved(<<K_firefly>>), <<K_firefly>>) : isEncrypted(leaf[2])}

\* C17: after loadConfig returned successfully the resolved configuration is
\* fully decrypted: no string leaf read from it carries the encrypted
\* prefix, whatever environment overrides were applied.
C17_FullyDecrypted ==
  Loaded => EncryptedResolvedLeaves = {}

\* the value the document gives a setting, or config/default.json when the
\* document does not hold it
DocumentValue(path) ==
  IF InDocument(path).t # "undefined" THEN InDocument(path) ELSE MemoryGet(defaults, path)
\* the same value once decrypted, when the document holds an envelope there
DecryptedDocumentValue(path) ==
  IF isEncryptedValue(DocumentValue(path)) /\ Truthy(MasterPassword)
  THEN Str(decrypt(DocumentValue(path).s, MasterPassword.s).val)
  ELSE DocumentValue(path)

\* C21: for each variable of the allow-list, the resolved setting equals the
\* value of the variable when it is present and non-empty, and the
\* document's value (decrypted, if it is an envelope) when the variable is
\* absent or empty; a setting whose variable is not set is not changed by the
\* other variables.
C21_AllowListedOverrides ==
  (Loaded /\ file.kind = "document") =>
    \A i \in 1..Len(envMap) :
      Resolved(envMap[i][2]) =
        IF Truthy(Getenv(env, envMap[i][1]))
        THEN Getenv(env, envMap[i][1])
        ELSE DecryptedDocumentValue(envMap[i][2])

\* the keys firefly, firefly.baseUrl, firefly.tokenApi and banks that the
\* configuration does not answer, in that order
AbsentKeys ==
  SelectSeq(<< <<K_firefly>>, <<K_firefly, K_baseUrl>>, <<K_firefly, K_tokenApi>>,
               <<K_banks>> >>,
            LAMBDA k : Resolved(k).t = "undefined")
\* the file store still holds the document as it was read
FileStoreAsRead ==
  \E i \in 1..Len(config) :
    /\ config[i].name = "file"
    /\ config[i].store = IF file.kind = "missing" THEN Obj(<<>>) ELSE file.doc

\* C22: once the document and the environment overrides are loaded, if one
\* of the required keys is absent, loadConfig fails with the
\* missing-required-keys error that names the absent keys, and it fails at
\* config.required: the credential overrides, the read of MASTER_PASSWORD
\* and the decryption are not reached and the stores are left as loaded.
C22_MissingRequiredKey ==
  (pc \notin {"loadConfig", "envOverrides", "required"} /\ file.kind # "unparsable"
     /\ AbsentKeys # <<>>)
    => /\ pc \in {"catch", "exited"}
       /\ error = Thrown("required", ERR_MISSING_REQUIRED, AbsentKeys)
       /\ FileStoreAsRead

\* firefly.tokenApi is absent from a document whose bank password is an
\* envelope, MASTER_PASSWORD is set, and loadConfig failed naming the key
C22_Witness ==
  /\ pc = "exited"
  /\ file.kind = "document"
  /\ hasEncryptedValues(file.doc)
  /\ Truthy(MasterPassword)
  /\ AbsentKeys = << <<K_firefly, K_tokenApi>> >>
  /\ error = Thrown("required", ERR_MISSING_REQUIRED, AbsentKeys)
  /\ hasEncryptedValues(Resolved(<<K_banks>>))

\* the place of a step in loadConfig's text
StepOrder ==
  <<"loadConfig", "envOverrides", "required", "credentials", "detect", "decryptBanks",
    "decryptFirefly", "loaded">>
Rank(step) ==
  IF \E k \in 1..Len(StepOrder) : StepOrder[k] = step
  THEN CHOOSE k \in 1..Len(StepOrder) : StepOrder[k] = step
  ELSE Len(StepOrder) + 1
\* a step of loadConfig leads to a later step, to its end or to its failure;
\* the decryption follows the detection exactly when it found an envelope
OneWay ==
  (Rank(pc) <= Len(StepOrder) /\ pc # "loaded") =>
    /\ Rank(pc') > Rank(pc)
    /\ pc' \in {"decryptBanks", "decryptFirefly"}
         => pc \in {"detect", "decryptBanks"}
    /\ pc = "detect" => (pc' = "decryptBanks" <=> (needsDecryption(config)
                                                    /\ Truthy(MasterPassword)))
    /\ pc = "detect" => (pc' = "loaded" <=> ~needsDecryption(config))
    /\ (pc = "credentials" /\ pc' # "catch") => pc' = "detect"
\* a credential leaf of the document whose variable holds a plaintext value
\* holds that value, not the document's, in what detection and decryption read
OverriddenBeforeDetection ==
  pc \in {"detect", "decryptBanks", "decryptFirefly"} =>
    \A leaf \in CREDENTIAL_LEAVES :
      (InDocument(leaf.path).t # "undefined" /\ Truthy(leaf.variable)
         /\ ~isEncryptedValue(leaf.variable))
        => /\ Resolved(leaf.path) = leaf.variable
           /\ ~isEncryptedValue(MemoryGet(Resolved(<<K_banks>>), Tail(leaf.path)))

\* C23: loadConfig passes once and in a fixed order through its steps
\* (stores loaded, environment overrides, required keys, positional
\* credential overrides, detection, then decryption only if detection found
\* an encrypted leaf), never going back; the positional credential overrides
\* are applied before detection and decryption, so a leaf overridden by a
\* plaintext variable is not among the leaves given to decrypt.
C23_FixedOrder ==
  [][OneWay]_vars /\ []OverriddenBeforeDetection

\* the document's password of bank 0 is an envelope under another password,
\* BANK_0_PASSWORD holds a plaintext and MASTER_PASSWORD is not set: the load
\* succeeded with the value of the variable
C23_Witness ==
  /\ Loaded
  /\ file.kind = "document"
  /\ InDocument(BankPath(0, 2)) = Str(FILE_BAD)
  /\ BankEnv(env, 0, "PASSWORD") = Str(S_envval)
  /\ ~Truthy(MasterPassword)
  /\ Resolved(BankPath(0, 2)) = Str(S_envval)

\* config.get('cron') as the startup reads it after the first run
ConfiguredCron == ProviderGet(config, <<K_cron>>)
Scheduled == cronJob.t # "undefined"

\* C27: the cron schedule is registered only after init has succeeded and
\* the first import run has finished, and only if a cron expression is
\* configured; an error thrown by an import run is caught inside run: after
\* the first run, whether or not it threw, the startup goes on without an
\* error, registers the schedule exactly when an expression is configured,
\* and every scheduled run can start whatever the runs before it did.
C27_ScheduledAfterFirstRun ==
  /\ Scheduled =>
       /\ pc = "idle"
       /\ imports >= 1
       /\ Truthy(ConfiguredCron)
       /\ cronJob = ConfiguredCron
  /\ imports >= 1 =>
       /\ pc \in {"schedule", "idle"}
       /\ ~error.thrown
       /\ exitCode = 0
       /\ pc = "idle" => (Scheduled <=> Truthy(ConfiguredCron))
       /\ (pc = "idle" /\ Scheduled /\ imports < MaxRuns) => ENABLED CronRun
\* the first run threw, the schedule was registered all the same, and a
\* scheduled run started and threw as well
C27_Witness ==
  /\ pc = "idle"
  /\ Scheduled
  /\ imports = 2
  /\ fatal = 2
  /\ exitCode = 0

\* the snapshot has been logged
SnapshotLogged == snapshot.t # "undefined"
KeysOf(obj) == [i \in 1..Len(obj.v) |-> KeyAt(obj, i)]
\* the banks with every credentials value replaced, credit cards included
RECURSIVE WithCredentials(_, _)
WithCredentials(list, secret) ==
  Arr([i \in 1..Len(list.v) |->
         Obj([k \in 1..Len(ValueAt(list, i).v) |->
                IF KeyAt(ValueAt(list, i), k) = K_credentials
                  THEN <<K_credentials, secret>>
                ELSE IF KeyAt(ValueAt(list, i), k) = K_creditCards
                  THEN <<K_creditCards,
                         WithCredentials(ValueAt(ValueAt(list, i), k), secret)>>
                ELSE ValueAt(list, i).v[k]])])
OTHER_SECRETS == {Null, Str(S_envsecret), Obj(<< <<K_password, Str(S_envsecret)>> >>)}
\* the snapshot of the configuration with other secrets in it
SnapshotWith(secret) ==
  Snapshot(Prop(snapshot, K_configFile),
           OrElse(Resolved(<<K_scraper>>), Obj(<<>>)),
           WithCredentials(Resolved(<<K_banks>>), secret))

\* C28: the snapshot logged at startup holds the config file path, the
\* scraper startDate and timeout, and per bank and per credit card the
\* index, type, startDate and timeout, and nothing else; it is the same for
\* every configuration that differs from the loaded one only in the values
\* of credentials or in firefly.tokenApi.
C28_SnapshotWithoutSecrets ==
  SnapshotLogged =>
    /\ KeysOf(snapshot) = <<K_configFile, K_scraperStartDate, K_scraperTimeout, K_banks>>
    /\ Prop(snapshot, K_configFile) = OrElse(Getenv(env, "CONFIG_FILE"), Str(S_dotConfigYaml))
    /\ Len(Prop(snapshot, K_banks).v) = Len(Resolved(<<K_banks>>).v)
    /\ \A i \in 1..Len(Prop(snapshot, K_banks).v) :
         /\ KeysOf(ValueAt(Prop(snapshot, K_banks), i))
              = <<K_index, K_type, K_startDate, K_timeout, K_creditCards>>
         /\ \A j \in 1..Len(Prop(ValueAt(Prop(snapshot, K_banks), i), K_creditCards).v) :
              KeysOf(ValueAt(Prop(ValueAt(Prop(snapshot, K_banks), i), K_creditCards), j))
                = <<K_index, K_type, K_startDate, K_timeout>>
    /\ \A secret \in OTHER_SECRETS :
         /\ SnapshotWith(secret) = snapshot
         /\ logConfigSnapshot(ProviderSet(config, <<K_firefly, K_tokenApi>>, secret), env)
              = snapshot
\* the snapshot of a bank with a credit card whose password was decrypted
C28_Witness ==
  /\ SnapshotLogged
  /\ Len(Prop(snapshot, K_banks).v) = 1
  /\ Len(Prop(ValueAt(Prop(snapshot, K_banks), 1), K_creditCards).v) = 1
  /\ file.doc = Document(Str(FILE_GOOD), Arr(<<Bank(Str(FILE_GOOD), Arr(<<Card(Str(FILE_GOOD))>>))>>), Undefined)
  /\ Resolved(<<K_banks, ToDecimal(0), K_creditCards, ToDecimal(0), K_credentials, K_password>>)
       = Str(S_secret)
  /\ Resolved(<<K_firefly, K_tokenApi>>) = Str(S_secret)

\* ------------------------------------------------------------------------
\* Properties of the encryption tool (checked under SpecTool)
\* ------------------------------------------------------------------------
\* the sensitive paths of the input document
SensitiveFields == listSensitiveFields(inputFile.doc, <<>>, <<>>)

\* every sensitive path was written to the console before the confirmation
\* question was
ListShown ==
  /\ inputFile.kind = "document"
  /\ SensitiveFields # <<>>
  /\ \E k \in 1..Len(console) :
       /\ console[k].msg = Q_PROCEED
       /\ \A j \in 1..Len(SensitiveFields) :
            \E m \in 1..(k - 1) : console[m] = Log(1, "  - ${field}", <<SensitiveFields[j]>>)

\* the three prompts of encryptConfig were answered, the second and third
\* with the same text of at least 8 characters
PasswordEnteredTwice ==
  /\ Len(answers) = 3
  /\ Len(answers[2]) >= MIN_PASSWORD_LENGTH
  /\ answers[3] = answers[2]
  /\ masterPassword = answers[2]

\* the one file written holds an envelope at every sensitive path it holds
EncryptedFileWritten ==
  /\ Len(written) = 1
  /\ written[1].path = parseArgs(args).output.s
  /\ \A k \in 1..Len(written[1].content) :
       (\E j \in 1..Len(SensitiveFields) : SensitiveFields[j] = written[1].content[k][1])
         => isEncryptedValue(written[1].content[k][2])

\* the run is one of encryptConfig, not of --help, --encrypt-value, --decrypt
EncryptConfigRun ==
  /\ parseArgs(args).unknown = Undefined
  /\ ~parseArgs(args).help /\ ~parseArgs(args).encryptValue /\ ~parseArgs(args).decrypt

\* C15 as stated: a file is written only after the list of sensitive paths
\* was shown, the operator answered 'y', a master password of at least 8
\* characters was entered twice identically and every sensitive field was
\* encrypted without error; on every other path no file is written.
C15_WrittenOnlyAfterY ==
  written # <<>>
    => /\ EncryptConfigRun
       /\ ListShown
       /\ PasswordEnteredTwice
       /\ answers[1] = S_y
       /\ EncryptedFileWritten

\* C15 amended: a file is written only after the list of sensitive paths was
\* shown, the operator gave an answer that is 'y' once put in lower case ('y'
\* or 'Y'), a master password of at least 8 characters was entered twice
\* identically and every sensitive field was encrypted without error; on
\* every other path no file is written.
C15_WrittenOnlyAfterConfirmation ==
  written # <<>>
    => /\ EncryptConfigRun
       /\ ListShown
       /\ PasswordEnteredTwice
       /\ toLowerCase(answers[1]) = S_y
       /\ EncryptedFileWritten

\* the nested document was encrypted and written after the answer 'y' and the
\* same password entered twice
C15_Witness ==
  /\ toolPc = "exited" /\ toolExit = 0
  /\ Len(written) = 1
  /\ inputFile.doc = DOC_BANKS
  /\ answers = <<S_y, PW_CORRECT, PW_CORRECT>>
  /\ ListShown
  /\ countEncryptedFields(inputFile.doc) = 0
  /\ Len(SensitiveFields) = 3
  /\ \A k \in 1..Len(written[1].content) :
       written[1].content[k][1] \in {SensitiveFields[j] : j \in 1..3}
         <=> isEncryptedValue(written[1].content[k][2])

\* the text is part of something the tool wrote to stdout, stderr or a file
WrittenToSink(text) ==
  \/ \E k \in 1..Len(console) :
       \E j \in 1..Len(console[k].args) : Contains(console[k].args[j], text)
  \/ \E k \in 1..Len(written) :
       \E j \in 1..Len(written[k].content) :
         /\ written[k].content[j][2].t = "string"
         /\ Contains(written[k].content[j][2].s, text)

\* C16: the master password is never written to any sink: nothing the
\* encryption tool writes to the console or to a file contains the master
\* password it was given.
C16_PasswordNeverWritten ==
  masterPassword # <<>> => ~WrittenToSink(masterPassword)

====
